---- MODULE Spec2Model ----
(***************************************************************************)
(* Model of the reader applications of msieur-gab/zenreader.               *)
(*                                                                         *)
(* The repository holds two builds that share the design:                  *)
(*   ZenReader  - ui module src/unnamed/part_000, gesture recognizer in    *)
(*                src/js/components/article-card.js (second half), app in  *)
(*                src/unnamed/part_001 (lines 745-1277); its panel is the  *)
(*                settings sheet (state.settingsSheetOpen);                *)
(*   ZenKeeper  - ui module src/js/ui.js, gesture recognizer               *)
(*                src/js/gestures.js, app in src/unnamed/part_001 (lines   *)
(*                1279-1782); its panel is the sidebar (state.sidebarOpen).*)
(* The variable app says which build runs; it never changes.               *)
(*                                                                         *)
(* Every event handler is one action.  A handler is computed by threading  *)
(* a record m = [state, writes, fired, ran] through the functions it calls: *)
(* state is the ui module's state object, writes lists the state object    *)
(* after each assignment the handler made (in program order), fired lists  *)
(* the callback slots it invoked and ran the functions found in them.      *)
(***************************************************************************)
EXTENDS Integers, Sequences, FiniteSets, TLC

VARIABLES
    app,             \* "ZenReader" or "ZenKeeper"
    state,           \* the ui module's state object
    writes,          \* state after each assignment of the last handler
    fired,           \* callbacks invoked by the last handler
    ran,             \* the functions those callbacks held, in the same order
    last,            \* the last event: its kind, inputs and the branch taken
    touchStartX,     \* recognizer: start of the tracked touch, or Null
    touchStartY,
    touchStartTime,
    touchTarget,     \* e.target of the touch in progress and its ancestors
    now,             \* Date.now(), re-based at each touchstart
    longPressTimer,  \* ZenKeeper recognizer: "none" or "armed"
    isSelectionMode, \* ZenKeeper recognizer
    callbacks,       \* recognizer: callback name -> handler or Null
    listeners,       \* recognizer: event types it has a listener bound for
    gesture,         \* history of the touch in progress: "idle", "held",
                     \* "moved" (beyond TAP_THRESHOLD before a long press),
                     \* "overlap" (it began while another touch was tracked)
    opening,         \* ZenKeeper: an openArticle call is suspended at an await
    \* reading position
    currentArticleId,\* the open article's id, or Null
    displayed,       \* the article whose content the reader shows, or Null
    contentHeight,   \* scrollHeight of the scrolled content
    viewportHeight,  \* window.innerHeight / container.clientHeight
    scrollTop,       \* window.scrollY / container.scrollTop
    indicator,       \* the progress the reader view shows
    db,              \* storage: article id -> its stored record
    ticking,         \* ZenReader: an animation frame is requested
    scrollTimeout,   \* ZenKeeper: the pending timers of the debounced save
    clock,           \* ms since the last scroll event, while a save is pending
    saves,           \* progress saves issued since the burst of scrolls began
    call,            \* the last application of a function: name, args, result
    \* storage and the asynchronous operations of the apps
    store,           \* the tables of the database and the content files
    tasks,           \* the operations suspended at an await
    notice           \* the error message the view shows, or NoNotice

vars == <<app, state, writes, fired, ran, last, touchStartX, touchStartY,
          touchStartTime, touchTarget, now, longPressTimer, isSelectionMode, callbacks,
          listeners, gesture, opening, currentArticleId, displayed, contentHeight,
          viewportHeight, scrollTop, indicator, db, ticking, scrollTimeout, clock,
          saves, call, store, tasks, notice>>

storageVars == <<store, tasks, notice>>

\* the variables of the reading position and of the storage
readerVars == <<currentArticleId, displayed, contentHeight, viewportHeight, scrollTop,
                indicator, db, ticking, scrollTimeout, clock, saves, call,
                storageVars>>

Null == -1

----------------------------------------------------------------------------
(* Configuration constants of the recognizers *)

SWIPE_THRESHOLD == 50
TAP_THRESHOLD == 10
LONG_PRESS_DELAY == 400

\* the long press delay taken for the swipe timeout
SWIPE_TIMEOUT_AsLongPress == LONG_PRESS_DELAY

SWIPE_TIMEOUT == 300

(* Bounds of the model *)

MaxDepth == 2   \* longest chain of elements from the touch target up to,
                \* and excluding, the gesture-bound root

Abs(n) == IF n < 0 THEN -n ELSE n

----------------------------------------------------------------------------
(* The threaded handler record *)

Begin(s) == [state |-> s, writes |-> <<>>, fired |-> <<>>, ran |-> <<>>]

\* Object.assign(state, updates) / state.f = v : one assignment per field,
\* in the order given.
RECURSIVE Assign(_, _)
Assign(m, updates) ==
    IF updates = <<>> THEN m
    ELSE LET s1 == [m.state EXCEPT ![updates[1][1]] = updates[1][2]]
         IN Assign([m EXCEPT !.state = s1, !.writes = Append(@, s1)],
                   Tail(updates))

PanelOpen(s) == s.settingsSheetOpen \/ s.sidebarOpen

Snapshot(m) == [m EXCEPT !.writes = Append(@, m.state)]

----------------------------------------------------------------------------
(* ZenReader ui module (src/unnamed/part_000) *)

ZR_showUI(m) == Assign(m, << <<"uiHidden", FALSE>> >>)

ZR_closeSettingsSheet(m) == Assign(m, << <<"settingsSheetOpen", FALSE>> >>)

ZR_openSettingsSheet(m) == Assign(m, << <<"settingsSheetOpen", TRUE>> >>)

ZR_hideUI(m) ==
    LET m1 == Assign(m, << <<"uiHidden", TRUE>> >>)
    IN  IF m1.state.settingsSheetOpen THEN ZR_closeSettingsSheet(m1) ELSE m1

ZR_toggleUI(m) == IF m.state.uiHidden THEN ZR_showUI(m) ELSE ZR_hideUI(m)

ZR_toggleSettingsSheet(m) ==
    IF m.state.settingsSheetOpen THEN ZR_closeSettingsSheet(m)
    ELSE ZR_openSettingsSheet(m)

ZR_showLibrary_KeepsSheet(m) ==
    Assign(m, << <<"currentView", "library">>, <<"uiHidden", FALSE>> >>)

ZR_showLibrary(m) ==
    Assign(m, << <<"currentView", "library">>,
                 <<"uiHidden", FALSE>>,
                 <<"settingsSheetOpen", FALSE>> >>)

ZR_showReader(m) == Assign(m, << <<"currentView", "reader">> >>)

ZR_renderReader(m) == ZR_showReader(m)

----------------------------------------------------------------------------
(* ZenKeeper ui module (src/js/ui.js) *)

\* Object.assign(state, updates), then listeners and render see the result:
\* one observable write per call.
RECURSIVE ObjectAssign(_, _)
ObjectAssign(s, updates) ==
    IF updates = <<>> THEN s
    ELSE ObjectAssign([s EXCEPT ![updates[1][1]] = updates[1][2]], Tail(updates))

updateState(m, updates) ==
    Snapshot([m EXCEPT !.state = ObjectAssign(m.state, updates)])

ZK_toggleSidebar(m) ==
    updateState(m, << <<"sidebarOpen", ~m.state.sidebarOpen>> >>)

\* forceValue: <<>> for null, <<b>> for the boolean b
ZK_toggleUI(m, forceValue) ==
    updateState(m, << <<"uiHidden", IF forceValue # <<>> THEN forceValue[1]
                                    ELSE ~m.state.uiHidden>> >>)

ZK_showUI(m) == updateState(m, << <<"uiHidden", FALSE>> >>)

ZK_hideUI(m) == updateState(m, << <<"uiHidden", TRUE>> >>)

ZK_showLibrary(m) ==
    updateState(m, << <<"currentView", "library">>,
                      <<"bookState", "idle">>,
                      <<"sidebarOpen", FALSE>>,
                      <<"uiHidden", FALSE>> >>)

setLoading(m) ==
    updateState(m, << <<"currentView", "reader">>, <<"bookState", "loading">> >>)

setError(m) == updateState(m, << <<"bookState", "error">> >>)

setReading(m) ==
    updateState(m, << <<"bookState", "reading">>, <<"currentView", "reader">> >>)

----------------------------------------------------------------------------
(* Gesture callbacks registered by the apps *)

NoCallback == "null"

CallbackNames == {"onSwipeLeft", "onSwipeRight", "onSwipeUp", "onSwipeDown",
                  "onTap", "onSelectionStart", "onSelectionEnd"}

\* ZenReader app, setupGestures
ZR_onTap(m) == IF ~m.state.settingsSheetOpen THEN ZR_toggleUI(m) ELSE m

ZR_onSwipeUp(m) == ZR_hideUI(m)

ZR_onSwipeDown(m) ==
    IF m.state.settingsSheetOpen THEN ZR_closeSettingsSheet(m) ELSE ZR_showUI(m)

\* ZenKeeper app, setupReaderGestures: articleReader.next() / prev() scroll
\* the article and leave the ui state alone.
ZK_next(m) == m

ZK_prev(m) == m

\* functions a caller of initGestures / updateCallbacks passes in besides the
\* apps' own: they leave the ui state alone
Replacements == {"cbA", "cbB"}

RunCallback(h, m) ==
    CASE h = "ZR_onTap"       -> ZR_onTap(m)
      [] h = "ZR_onSwipeUp"   -> ZR_onSwipeUp(m)
      [] h = "ZR_onSwipeDown" -> ZR_onSwipeDown(m)
      [] h = "ZK_next"        -> ZK_next(m)
      [] h = "ZK_prev"        -> ZK_prev(m)
      [] h \in Replacements   -> m

\* if (onX) onX();
Invoke(m, cbs, name) ==
    IF cbs[name] = NoCallback THEN m
    ELSE RunCallback(cbs[name], [m EXCEPT !.fired = Append(@, name),
                                          !.ran = Append(@, cbs[name])])

ZR_initGestures ==
    [n \in CallbackNames |->
        CASE n = "onSwipeUp"   -> "ZR_onSwipeUp"
          [] n = "onSwipeDown" -> "ZR_onSwipeDown"
          [] n = "onTap"       -> "ZR_onTap"
          [] OTHER             -> NoCallback]

ZK_initGestures == [n \in CallbackNames |-> NoCallback]

\* the listeners initGestures binds, on the element and on the document
ZR_listeners == {"touchstart", "touchmove", "touchend", "touchcancel", "click",
                 "keydown"}

ZK_listeners == {"touchstart", "touchmove", "touchend", "touchcancel",
                 "reader-swipe", "reader-tap", "keydown", "mousemove"}

\* every slot is set from the argument, as initGestures does
updateCallbacks_ReplacesAll(cbs, new) ==
    [n \in CallbackNames |-> IF n \in DOMAIN new THEN new[n] ELSE NoCallback]

updateCallbacks(cbs, new) ==
    [n \in CallbackNames |-> IF n \in DOMAIN new THEN new[n] ELSE cbs[n]]

\* the ZenReader recognizer has the three slots onSwipeUp, onSwipeDown, onTap
ZR_CallbackNames == {"onSwipeUp", "onSwipeDown", "onTap"}

ZR_updateCallbacks(cbs, new) ==
    [n \in CallbackNames |->
        IF n \in DOMAIN new \cap ZR_CallbackNames THEN new[n] ELSE cbs[n]]

setupReaderGestures(cbs) ==
    updateCallbacks(cbs, [onSwipeLeft |-> "ZK_next", onSwipeRight |-> "ZK_prev"])

----------------------------------------------------------------------------
(* DOM elements on the path of an event *)

NoRole == "null"

Element(tag, role, classes, root) ==
    [tagName |-> tag, role |-> role, classList |-> classes, isGestureTarget |-> root]

\* The elements a touch or click can land on, below the gesture-bound root
Elements ==
    { Element("P", NoRole, {}, FALSE),
      Element("A", NoRole, {}, FALSE),
      Element("DIV", "button", {"btn"}, FALSE) }

gestureTarget == Element("DIV", NoRole, {"reader-content"}, TRUE)

\* An interactive element that contains the gesture-bound root
Wrapper == Element("LABEL", NoRole, {}, FALSE)

RECURSIVE SeqsUpTo(_, _)
SeqsUpTo(S, n) ==
    IF n = 0 THEN {<<>>}
    ELSE LET shorter == SeqsUpTo(S, n - 1)
         IN  shorter \cup {Append(q, x) : q \in shorter, x \in S}

\* e.target followed by its ancestors: at most MaxDepth elements below the
\* root, the root, and what contains the root.
Paths ==
    {below \o <<gestureTarget>> \o above :
        below \in SeqsUpTo(Elements, MaxDepth), above \in {<<>>, <<Wrapper>>}}

interactiveTags == {"BUTTON", "A", "INPUT", "TEXTAREA", "SELECT", "LABEL"}

interactiveRoles == {"button", "link", "checkbox", "radio", "textbox"}

\* path: the element followed by its parentElement chain
RECURSIVE isInteractiveElement(_)
isInteractiveElement(path) ==
    IF path = <<>> \/ path[1].isGestureTarget THEN FALSE
    ELSE IF path[1].tagName \in interactiveTags THEN TRUE
    ELSE IF path[1].role \in interactiveRoles THEN TRUE
    ELSE IF "btn" \in path[1].classList THEN TRUE
    ELSE IF "fab" \in path[1].classList THEN TRUE
    ELSE isInteractiveElement(Tail(path))

----------------------------------------------------------------------------
(* Gesture recognizers: handleTouchEnd *)

Result(m, branch) == [m |-> m, branch |-> branch]

\* deltaX = touchStartX - touch.clientX (and deltaY likewise)
Delta_EndMinusStart(start, end) == end - start

Delta(start, end) == start - end

\* ZenReader recognizer (src/js/components/article-card.js).  sx, sy, st:
\* touchStartX, touchStartY, touchStartTime; ex, ey: e.changedTouches[0];
\* t: Date.now(); path: e.target and its ancestors.
ZR_handleTouchEnd(m, cbs, sx, sy, st, ex, ey, t, path) ==
    IF sx = Null \/ sy = Null THEN Result(m, "untracked")
    ELSE
    LET deltaX == Delta(sx, ex)
        deltaY == Delta(sy, ey)
        deltaTime == t - st
        absX == Abs(deltaX)
        absY == Abs(deltaY)
    IN  IF deltaTime > SWIPE_TIMEOUT THEN Result(m, "timeout")
        ELSE IF absY > SWIPE_THRESHOLD /\ absY > absX
             THEN IF deltaY > 0
                  THEN Result(Invoke(m, cbs, "onSwipeUp"), "swipeUp")
                  ELSE Result(Invoke(m, cbs, "onSwipeDown"), "swipeDown")
        ELSE IF absX < TAP_THRESHOLD /\ absY < TAP_THRESHOLD
             THEN IF ~isInteractiveElement(path)
                  THEN Result(Invoke(m, cbs, "onTap"), "tap")
                  ELSE Result(m, "tapSuppressed")
        ELSE Result(m, "none")

\* ZenKeeper recognizer (src/js/gestures.js).  sel: isSelectionMode.
ZK_handleTouchEnd(m, cbs, sx, sy, st, sel, ex, ey, t) ==
    IF sx = Null \/ sy = Null THEN Result(m, "untracked")
    ELSE IF sel THEN Result(Invoke(m, cbs, "onSelectionEnd"), "selectionEnd")
    ELSE
    LET deltaX == Delta(sx, ex)
        deltaY == Delta(sy, ey)
        deltaTime == t - st
        absX == Abs(deltaX)
        absY == Abs(deltaY)
    IN  IF deltaTime > SWIPE_TIMEOUT THEN Result(m, "timeout")
        ELSE IF absX > SWIPE_THRESHOLD \/ absY > SWIPE_THRESHOLD
             THEN IF absX > absY
                  THEN IF deltaX > 0
                       THEN Result(Invoke(m, cbs, "onSwipeLeft"), "swipeLeft")
                       ELSE Result(Invoke(m, cbs, "onSwipeRight"), "swipeRight")
                  ELSE IF deltaY > 0
                       THEN Result(Invoke(ZK_hideUI(m), cbs, "onSwipeUp"), "swipeUp")
                       ELSE Result(Invoke(ZK_showUI(m), cbs, "onSwipeDown"), "swipeDown")
        ELSE IF absX < TAP_THRESHOLD /\ absY < TAP_THRESHOLD
             THEN Result(Invoke(ZK_toggleUI(m, <<>>), cbs, "onTap"), "tap")
        ELSE Result(m, "none")

\* handleClick of the ZenReader recognizer: e.target.closest('a') looks at
\* the target and at every ancestor
ZR_handleClick(m, cbs, path) ==
    IF isInteractiveElement(path) THEN Result(m, "interactive")
    ELSE IF \E i \in DOMAIN path : path[i].tagName = "A" THEN Result(m, "link")
    ELSE Result(Invoke(m, cbs, "onTap"), "tap")

----------------------------------------------------------------------------
(* Inputs *)

\* clientX, clientY where a touch starts
Starts == {<<100, 100>>, <<200, 120>>}

\* start minus end coordinate of a touch, in px: around the two thresholds
Deltas == {-60, -3, 0, 5, 10, 50, 60}

\* a swipe, no movement, a swipe the other way
CoarseDeltas == {-60, 0, 60}

\* movement of the finger during a touch: at and beyond TAP_THRESHOLD
MoveDeltas == {-11, 0, 10}

\* the root itself, and a link below it
CoarsePaths == {<<gestureTarget>>, <<Element("A", NoRole, {}, FALSE), gestureTarget>>}

\* clock readings, in ms after the touchstart
TimePoints == {0, 50, 100, 300, 301, 400, 500}

\* a quick touch, a slow one
CoarseTimes == {100, 500}

Event(op, dx, dy, dt, path, branch) ==
    [op |-> op, dx |-> dx, dy |-> dy, dt |-> dt, path |-> path, branch |-> branch]

Plain(op) == Event(op, 0, 0, 0, <<>>, "none")

Commit(m) == /\ state' = m.state
             /\ writes' = m.writes
             /\ fired' = m.fired
             /\ ran' = m.ran

----------------------------------------------------------------------------
(* Numbers.  A JavaScript number that is not an integer is kept as the     *)
(* exact fraction n / d with d > 0.                                        *)

Rat(n, d) == [n |-> n, d |-> d]

Whole(n) == Rat(n, 1)

Less(a, b) == a.n * b.d < b.n * a.d

SameNumber(a, b) == a.n * b.d = b.n * a.d

MathMax(a, b) == IF Less(a, b) THEN b ELSE a

MathMin(a, b) == IF Less(b, a) THEN b ELSE a

\* Math.round: the nearest integer, a half rounds up
MathRound(x) == (2 * x.n + x.d) \div (2 * x.d)

----------------------------------------------------------------------------
(* Reading position: ZenKeeper reader (src/js/reader-article.js) *)

\* container and contentElement are set; H: contentElement.scrollHeight,
\* V: container.clientHeight
getMaxScroll(H, V) == IF 1 > H - V THEN 1 ELSE H - V

\* top: container.scrollTop
getScrollPercentage(top, H, V) ==
    LET maxScroll == getMaxScroll(H, V)
    IN  IF maxScroll <= 0 THEN 100
        ELSE MathRound(Rat(top.n * 100, top.d * maxScroll))

\* the offset taken as a share of the content height
percentageToScrollTop_OfContent(percentage, H, V) == Rat(percentage * H, 100)

\* initArticle (restore) and scrollTo: (percentage / 100) * getMaxScroll()
percentageToScrollTop(percentage, H, V) ==
    Rat(percentage * getMaxScroll(H, V), 100)

(* Reading position: ZenReader app, setupScrollProgress and ui.updateProgress *)

\* scrollY: window.scrollY, H: documentElement.scrollHeight, V: innerHeight
ZR_progress(scrollY, H, V) ==
    LET docHeight == H - V
    IN  IF docHeight > 0 THEN Rat(scrollY.n * 100, scrollY.d * docHeight)
        ELSE Whole(0)

\* the value is only kept from falling below 0
updateProgress_NoCeiling(percentage) == MathMax(Whole(0), percentage)

\* ui.updateProgress: the value it shows
updateProgress(percentage) == MathMin(Whole(100), MathMax(Whole(0), percentage))

----------------------------------------------------------------------------
(* Storage *)

\* ids of the articles of the library
ArticleIds == {1, 2}

\* no timer is pending
NoTimer == <<>>

\* the timer is left pending
clearTimeout_LeavesTimer(timers) == timers

\* clearTimeout(scrollTimeout): the timer set last is removed from the
\* pending timers
clearTimeout(timers) ==
    IF timers = <<>> THEN timers ELSE SubSeq(timers, 1, Len(timers) - 1)

NoCall == [fn |-> "none"]

\* ZenReader: db.articles as addArticle wrote them (src/js/storage.js), readAt:
\* whether a time of reading has been written;
\* ZenKeeper: db.readingProgress, no row yet (src/unnamed/part_002)
EmptyDb(a) ==
    [id \in ArticleIds |->
        IF a = "ZenReader" THEN [isRead |-> FALSE, progress |-> 0, readAt |-> FALSE]
        ELSE [saved |-> FALSE, scrollPosition |-> Whole(0), percentage |-> 0]]

\* storage.getArticle: db.articles.update(id, {readAt})
getArticle(d, id) == [d EXCEPT ![id].readAt = TRUE]

\* the record is written anew, not updated
storage_updateProgress_PutsRecord(d, id, progress) ==
    [d EXCEPT ![id] = [isRead |-> FALSE, progress |-> progress, readAt |-> FALSE]]

\* storage.updateProgress: db.articles.update(id, {progress})
storage_updateProgress(d, id, progress) == [d EXCEPT ![id].progress = progress]

\* db.articles.update(id, {isRead: true, readAt})
markAsRead(d, id) == [d EXCEPT ![id].isRead = TRUE, ![id].readAt = TRUE]

\* the threshold taken as reached at 90
exceedsReadThreshold_AtNinety(progress) == ~Less(progress, Whole(90))

\* progress > 90
exceedsReadThreshold(progress) == Less(Whole(90), progress)

\* what findBookmark returns when no bookmark matches
NoBookmark == [id |-> Null]

\* db.bookmarks is the sequence d of the rows in the order of their ids;
\* getBookmarks: where('articleId').equals(articleId).toArray()
getBookmarks(d, articleId) == SelectSeq(d, LAMBDA b : b.articleId = articleId)

\* findBookmark: the first of the article's bookmarks less than 2 points from
\* scrollPosition, or null
findBookmark(d, articleId, scrollPosition) ==
    LET bookmarks == getBookmarks(d, articleId)
        found == {i \in DOMAIN bookmarks :
                     Abs(bookmarks[i].scrollPosition - scrollPosition) < 2}
    IN  IF found = {} THEN NoBookmark
        ELSE bookmarks[CHOOSE i \in found : \A j \in found : i <= j]

\* no error message is shown
NoNotice == "none"

\* a row of db.highlights owned by an article
Owned(id, articleId) == [id |-> id, articleId |-> articleId]

\* a row of db.bookmarks
Bookmark(id, articleId, scrollPosition) ==
    [id |-> id, articleId |-> articleId, scrollPosition |-> scrollPosition]

\* the library: the ids with a row in db.articles, the ids whose last-read
\* time is written, the ids with a content file, the rows of db.bookmarks and
\* db.highlights (each article has one bookmark, at 35 %, and one highlight),
\* the last key the key generator of db.bookmarks ('++id') has given, the ids
\* with a row in db.readingProgress and the requests made of
\* db.readingProgress that have not settled, in the order in which the
\* database will run them.  The ZenReader database has the articles
\* table only (src/js/storage.js).
Library(a, contentOf) ==
    [articles |-> ArticleIds,
     readAt |-> {},
     content |-> contentOf,
     bookmarks |-> IF a = "ZenReader" THEN {}
                   ELSE {Bookmark(id, id, 35) : id \in ArticleIds},
     bookmarkKey |-> IF a = "ZenReader" THEN 0 ELSE Cardinality(ArticleIds),
     highlights |-> IF a = "ZenReader" THEN {}
                    ELSE {Owned(id, id) : id \in ArticleIds},
     progress |-> IF a = "ZenReader" THEN {} ELSE ArticleIds,
     queue |-> <<>>]

\* nothing is in flight, every article has its content
StorageIdle ==
    /\ store = Library(app, ArticleIds)
    /\ tasks = {}
    /\ notice = NoNotice

\* dir.removeEntry(fileName)
removeEntry(st, id) == [st EXCEPT !.content = @ \ {id}]

\* deleteArticleContent: a failure of removeEntry is caught and logged
deleteArticleContent(st, id, ok) == IF ok THEN removeEntry(st, id) ELSE st

\* the awaits of storage.deleteArticle after db.articles.get, in order; the
\* ZenReader one ends after db.articles.delete
DeleteSteps(a) ==
    IF a = "ZenReader" THEN <<"content", "articles">>
    ELSE <<"content", "articles", "bookmarks", "highlights", "progress">>

\* a request of db.readingProgress: put(id) or delete(id)
Request(op, id) == [op |-> op, id |-> id]

\* the request is made: it is run after those made before it
enqueue(st, r) == [st EXCEPT !.queue = Append(@, r)]

\* the request at the head has settled
dequeue(st) == [st EXCEPT !.queue = Tail(@)]

\* the request r is the next the database runs
IsNext(st, r) == st.queue # <<>> /\ Head(st.queue) = r

\* one await of storage.deleteArticle(id) that succeeded
deleteArticle_step(st, step, id) ==
    CASE step = "articles"   -> [st EXCEPT !.articles = @ \ {id}, !.readAt = @ \ {id}]
      [] step = "bookmarks"  ->
            [st EXCEPT !.bookmarks = {b \in @ : b.articleId # id}]
      [] step = "highlights" ->
            [st EXCEPT !.highlights = {h \in @ : h.articleId # id}]
      [] step = "progress"   -> [st EXCEPT !.progress = @ \ {id},
                                           !.queue = Tail(@)]
      [] OTHER               -> st

\* no article is open, nothing is pending
ReaderIdle ==
    /\ currentArticleId = Null
    /\ displayed = Null
    /\ contentHeight = 0
    /\ viewportHeight = 0
    /\ scrollTop = Whole(0)
    /\ indicator = Whole(0)
    /\ db = EmptyDb(app)
    /\ ticking = FALSE
    /\ scrollTimeout = NoTimer
    /\ clock = 0
    /\ saves = <<>>
    /\ call = NoCall
    /\ StorageIdle

----------------------------------------------------------------------------
(* Initial state: init() has run, the library is shown *)

Init ==
    /\ app \in {"ZenReader", "ZenKeeper"}
    /\ state = [currentView |-> "library", uiHidden |-> FALSE,
                settingsSheetOpen |-> FALSE, sidebarOpen |-> FALSE,
                bookState |-> "idle"]
    /\ writes = <<>>
    /\ fired = <<>>
    /\ ran = <<>>
    /\ listeners = IF app = "ZenReader" THEN ZR_listeners ELSE ZK_listeners
    /\ gesture = "idle"
    /\ last = Plain("init")
    /\ touchStartX = Null
    /\ touchStartY = Null
    /\ touchStartTime = Null
    /\ touchTarget = <<>>
    /\ now = 0
    /\ longPressTimer = "none"
    /\ isSelectionMode = FALSE
    /\ callbacks = IF app = "ZenReader" THEN ZR_initGestures ELSE ZK_initGestures
    /\ opening = FALSE
    /\ ReaderIdle

----------------------------------------------------------------------------
(* Touch events on the gesture-bound element.  The element is displayed in *)
(* the reader view only; a touch that began there still delivers its later *)
(* events.                                                                 *)

\* the start time is left as it is
resetTouch_KeepsTime ==
    /\ touchStartX' = Null
    /\ touchStartY' = Null
    /\ UNCHANGED touchStartTime

resetTouch ==
    /\ touchStartX' = Null
    /\ touchStartY' = Null
    /\ touchStartTime' = Null

\* handleTouchStart; the ZenKeeper recognizer also re-arms the long press
\* timer.  Every event of a touch has the element it began on as e.target.
TouchStart(p, path) ==
    /\ "touchstart" \in listeners
    /\ state.currentView = "reader"
    /\ app = "ZenKeeper" => path \in CoarsePaths   \* it never reads e.target
    /\ touchTarget' = path
    /\ now' = 0
    /\ touchStartX' = p[1]
    /\ touchStartY' = p[2]
    /\ touchStartTime' = now'
    /\ longPressTimer' = IF app = "ZenKeeper" THEN "armed" ELSE longPressTimer
    /\ Commit(Begin(state))
    /\ last' = Plain("touchstart")
    /\ gesture' = IF touchStartX = Null THEN "held" ELSE "overlap"
    /\ UNCHANGED <<readerVars, app, listeners, isSelectionMode, callbacks, opening>>

\* time passes during a touch sequence
Advance(t) ==
    /\ touchStartTime # Null
    /\ t > now
    /\ now' = t
    /\ UNCHANGED <<readerVars, app, listeners, gesture, state, writes, fired, ran, last,
                   touchStartX, touchStartY,
                   touchStartTime, touchTarget, longPressTimer, isSelectionMode,
                   callbacks, opening>>

\* the long press timer after handleTouchMove left it running
timerAfterMove_StillArmed(timer, sel, dx, dy) == timer

\* the long press timer after the ZenKeeper handleTouchMove; dx, dy: the
\* finger's distance from where the touch started
timerAfterMove(timer, sel, dx, dy) ==
    IF ~sel /\ (Abs(dx) > TAP_THRESHOLD \/ Abs(dy) > TAP_THRESHOLD)
    THEN "none" ELSE timer

\* handleTouchMove: the ZenReader recognizer only tracks; the ZenKeeper one
\* cancels the long press once the finger has moved
TouchMove(dx, dy) ==
    /\ "touchmove" \in listeners
    /\ touchStartX # Null
    /\ longPressTimer' =
          IF app = "ZenKeeper"
          THEN timerAfterMove(longPressTimer, isSelectionMode, dx, dy)
          ELSE longPressTimer
    /\ Commit(Begin(state))
    /\ last' = Plain("touchmove")
    /\ gesture' = IF /\ gesture = "held"
                     /\ ~isSelectionMode
                     /\ (Abs(dx) > TAP_THRESHOLD \/ Abs(dy) > TAP_THRESHOLD)
                  THEN "moved" ELSE gesture
    /\ UNCHANGED <<readerVars, app, listeners, touchStartX, touchStartY, touchStartTime, touchTarget,
                   now, isSelectionMode, callbacks, opening>>

\* the long press timer fires (ZenKeeper recognizer)
LongPress ==
    /\ longPressTimer = "armed"
    /\ now >= LONG_PRESS_DELAY
    /\ longPressTimer' = "none"
    /\ isSelectionMode' = TRUE
    /\ Commit(Invoke(Begin(state), callbacks, "onSelectionStart"))
    /\ last' = Plain("longpress")
    /\ UNCHANGED <<readerVars, app, listeners, gesture, touchStartX, touchStartY, touchStartTime, touchTarget,
                   now, callbacks, opening>>

\* handleTouchEnd of the running build
TouchEnd(dx, dy) ==
    /\ "touchend" \in listeners
    /\ touchStartX # Null \/ state.currentView = "reader"
    /\ LET path == IF touchTarget = <<>> THEN <<gestureTarget>> ELSE touchTarget
           sx == touchStartX
           sy == touchStartY
           ex == IF sx = Null THEN 0 ELSE sx - dx
           ey == IF sy = Null THEN 0 ELSE sy - dy
           r  == IF app = "ZenReader"
                 THEN ZR_handleTouchEnd(Begin(state), callbacks, sx, sy,
                                        touchStartTime, ex, ey, now, path)
                 ELSE ZK_handleTouchEnd(Begin(state), callbacks, sx, sy,
                                        touchStartTime, isSelectionMode,
                                        ex, ey, now)
       IN  /\ Commit(r.m)
           /\ last' = IF sx = Null THEN Event("touchend", 0, 0, 0, path, r.branch)
                      ELSE Event("touchend", dx, dy, now - touchStartTime,
                                 path, r.branch)
    /\ IF touchStartX = Null
       THEN UNCHANGED <<touchStartX, touchStartY, touchStartTime, isSelectionMode>>
       ELSE resetTouch /\ isSelectionMode' = FALSE
    /\ longPressTimer' = "none"
    /\ touchTarget' = <<>>
    /\ now' = 0
    /\ gesture' = "idle"
    /\ UNCHANGED <<readerVars, app, listeners, callbacks, opening>>

\* handleTouchCancel
TouchCancel ==
    /\ "touchcancel" \in listeners
    /\ touchStartX # Null
    /\ resetTouch
    /\ longPressTimer' = "none"
    /\ isSelectionMode' = FALSE
    /\ touchTarget' = <<>>
    /\ now' = 0
    /\ Commit(Begin(state))
    /\ last' = Plain("touchcancel")
    /\ gesture' = "idle"
    /\ UNCHANGED <<readerVars, app, listeners, callbacks, opening>>

\* a click on the gesture-bound element, from the mouse or delivered by the
\* browser after a touch that ended as a tap (handleTouchEnd calls
\* preventDefault for a swipe only); path: e.target and its ancestors
Click(path) ==
    /\ "click" \in listeners
    /\ state.currentView = "reader"
    /\ touchStartX = Null
    /\ LET r == ZR_handleClick(Begin(state), callbacks, path)
       IN  /\ Commit(r.m)
           /\ last' = Event("click", 0, 0, 0, path, r.branch)
    /\ UNCHANGED <<readerVars, app, listeners, gesture, touchStartX, touchStartY,
                   touchStartTime, touchTarget, now, longPressTimer,
                   isSelectionMode, callbacks, opening>>

----------------------------------------------------------------------------
(* ZenReader app: listeners of attachEventListeners and openArticle *)

QuietTouch == UNCHANGED <<readerVars, app, listeners, gesture, touchStartX, touchStartY,
                          touchStartTime, touchTarget, now, longPressTimer,
                          isSelectionMode, opening>>

Quiet == QuietTouch /\ UNCHANGED callbacks

\* settings button of the reader view
ZR_SettingsButton ==
    /\ app = "ZenReader"
    /\ state.currentView = "reader"
    /\ Commit(ZR_openSettingsSheet(Begin(state)))
    /\ last' = Plain("openPanel")
    /\ Quiet

\* click on the backdrop of the settings sheet
ZR_SheetBackdrop ==
    /\ app = "ZenReader"
    /\ state.currentView = "reader"
    /\ Commit(ZR_closeSettingsSheet(Begin(state)))
    /\ last' = Plain("closePanel")
    /\ Quiet

\* the ui module's toggleSettingsSheet, called by the view layer
ZR_SettingsToggle ==
    /\ app = "ZenReader"
    /\ state.currentView = "reader"
    /\ Commit(ZR_toggleSettingsSheet(Begin(state)))
    /\ last' = Plain("togglePanel")
    /\ Quiet

\* back button
ZR_BackButton ==
    /\ app = "ZenReader"
    /\ state.currentView = "reader"
    /\ Commit(ZR_showLibrary(Begin(state)))
    /\ last' = Plain("showLibrary")
    /\ Quiet

\* keydown on the document: the app's listener was added first, the
\* recognizer's handleKeyDown second.  modal: a modal dialog is open;
\* inInput: the focus is in an INPUT or TEXTAREA.
ZR_KeyDown(key, modal, inInput) ==
    /\ app = "ZenReader"
    /\ LET m0 == Begin(state)
           m1 == IF key = "Escape" /\ ~modal /\ m0.state.currentView = "reader"
                 THEN ZR_showLibrary(m0) ELSE m0
           m2 == IF inInput THEN m1
                 ELSE IF m1.state.currentView # "reader" THEN m1
                 ELSE IF key = "Escape" THEN Invoke(m1, callbacks, "onSwipeDown")
                 ELSE m1
       IN  Commit(m2)
    /\ last' = Plain("keydown")
    /\ Quiet

\* article-open from a card of the library: openArticle suspends at
\* storage.getArticle
ZR_openArticle ==
    /\ app = "ZenReader"
    /\ state.currentView = "library"
    /\ opening' = TRUE
    /\ Commit(Begin(state))
    /\ last' = Plain("openArticle")
    /\ UNCHANGED <<readerVars, app, listeners, gesture, touchStartX, touchStartY, touchStartTime,
                   touchTarget, now, longPressTimer, isSelectionMode, callbacks>>

\* ... and resumes: renderReader, or the catch block when storage failed
ZR_openArticleResume(ok) ==
    /\ app = "ZenReader"
    /\ opening
    /\ opening' = FALSE
    /\ Commit(IF ok THEN ZR_renderReader(Begin(state)) ELSE Begin(state))
    /\ last' = Plain("openArticleResume")
    /\ UNCHANGED <<readerVars, app, listeners, gesture, touchStartX, touchStartY, touchStartTime,
                   touchTarget, now, longPressTimer, isSelectionMode, callbacks>>

----------------------------------------------------------------------------
(* ZenKeeper app: listeners of setupEventListeners, openArticle, and the   *)
(* recognizer's document listeners                                         *)

\* sidebar toggle button of the reader header
ZK_SidebarToggle ==
    /\ app = "ZenKeeper"
    /\ state.currentView = "reader"
    /\ Commit(ZK_toggleSidebar(Begin(state)))
    /\ last' = Plain("togglePanel")
    /\ Quiet

\* goToHeading / goToBookmark: a click on an entry of the sidebar
ZK_goTo ==
    /\ app = "ZenKeeper"
    /\ state.sidebarOpen
    /\ Commit(updateState(Begin(state), << <<"sidebarOpen", FALSE>> >>))
    /\ last' = Plain("closePanel")
    /\ Quiet

\* backToLibrary
ZK_backToLibrary ==
    /\ app = "ZenKeeper"
    /\ state.currentView = "reader"
    /\ Commit(ZK_showLibrary(Begin(state)))
    /\ last' = Plain("showLibrary")
    /\ Quiet

\* openArticle up to its first await
ZK_openArticle ==
    /\ app = "ZenKeeper"
    /\ state.currentView = "library" \/ state.bookState = "error"
    /\ opening' = TRUE
    /\ Commit(setLoading(Begin(state)))
    /\ last' = Plain("openArticle")
    /\ UNCHANGED <<readerVars, app, listeners, gesture, touchStartX, touchStartY, touchStartTime,
                   touchTarget, now, longPressTimer, isSelectionMode, callbacks>>

\* openArticle after its awaits: setReading and setupReaderGestures, or the
\* catch block
ZK_openArticleResume(ok) ==
    /\ app = "ZenKeeper"
    /\ opening
    /\ opening' = FALSE
    /\ Commit(IF ok THEN setReading(Begin(state)) ELSE setError(Begin(state)))
    /\ callbacks' = IF ok THEN setupReaderGestures(callbacks) ELSE callbacks
    /\ last' = Plain("openArticleResume")
    /\ UNCHANGED <<readerVars, app, listeners, gesture, touchStartX, touchStartY, touchStartTime,
                   touchTarget, now, longPressTimer, isSelectionMode>>

\* handleReaderSwipe
ZK_ReaderSwipe(direction) ==
    /\ app = "ZenKeeper"
    /\ LET m == Begin(state)
       IN  Commit(CASE direction = "left"  -> Invoke(m, callbacks, "onSwipeLeft")
                    [] direction = "right" -> Invoke(m, callbacks, "onSwipeRight")
                    [] direction = "up"    -> Invoke(ZK_hideUI(m), callbacks, "onSwipeUp")
                    [] direction = "down"  -> Invoke(ZK_showUI(m), callbacks, "onSwipeDown")
                    [] OTHER               -> m)
    /\ last' = Event("reader-swipe", 0, 0, 0, <<>>, direction)
    /\ Quiet

\* handleReaderTap
ZK_ReaderTap ==
    /\ app = "ZenKeeper"
    /\ Commit(Invoke(ZK_toggleUI(Begin(state), <<>>), callbacks, "onTap"))
    /\ last' = Event("reader-tap", 0, 0, 0, <<>>, "tap")
    /\ Quiet

Keys == {"ArrowLeft", "ArrowRight", "ArrowUp", "ArrowDown", "Escape", "f"}

\* handleKeyDown
ZK_KeyDown(key, inInput) ==
    /\ app = "ZenKeeper"
    /\ LET m == Begin(state)
       IN  Commit(IF m.state.currentView # "reader" THEN m
                  ELSE IF inInput THEN m
                  ELSE CASE key = "ArrowLeft"  -> Invoke(m, callbacks, "onSwipeRight")
                         [] key = "ArrowRight" -> Invoke(m, callbacks, "onSwipeLeft")
                         [] key = "ArrowUp"    -> ZK_showUI(m)
                         [] key = "ArrowDown"  -> ZK_hideUI(m)
                         [] key = "Escape"     -> IF m.state.uiHidden THEN ZK_showUI(m) ELSE m
                         [] OTHER              -> m)
    /\ last' = Plain("keydown")
    /\ Quiet

\* handleMouseMove
ZK_MouseMove ==
    /\ app = "ZenKeeper"
    /\ LET m == Begin(state)
       IN  Commit(IF m.state.currentView # "reader" THEN m
                  ELSE IF m.state.uiHidden THEN ZK_showUI(m) ELSE m)
    /\ last' = Plain("mousemove")
    /\ Quiet

----------------------------------------------------------------------------

UIActions ==
    \/ ZR_SettingsButton
    \/ ZR_SheetBackdrop
    \/ ZR_SettingsToggle
    \/ ZR_BackButton
    \/ \E key \in Keys, modal \in BOOLEAN, inInput \in BOOLEAN :
          ZR_KeyDown(key, modal, inInput)
    \/ ZR_openArticle
    \/ \E ok \in BOOLEAN : ZR_openArticleResume(ok)
    \/ ZK_SidebarToggle
    \/ ZK_goTo
    \/ ZK_backToLibrary
    \/ ZK_openArticle
    \/ \E ok \in BOOLEAN : ZK_openArticleResume(ok)
    \/ \E d \in {"left", "right", "up", "down"} : ZK_ReaderSwipe(d)
    \/ ZK_ReaderTap
    \/ \E key \in Keys, inInput \in BOOLEAN : ZK_KeyDown(key, inInput)
    \/ ZK_MouseMove

\* The applications: every handler, touches drawn from the coarse inputs
Next ==
    \/ \E p \in Starts, path \in CoarsePaths : TouchStart(p, path)
    \/ \E t \in CoarseTimes : Advance(t)
    \/ \E dx \in MoveDeltas, dy \in MoveDeltas : TouchMove(dx, dy)
    \/ LongPress
    \/ \E dx \in CoarseDeltas, dy \in CoarseDeltas : TouchEnd(dx, dy)
    \/ TouchCancel
    \/ \E path \in CoarsePaths : Click(path)
    \/ UIActions

Spec == Init /\ [][Next]_vars

----------------------------------------------------------------------------
(* The recognizers alone, driven with the full inputs while an article is  *)
(* open in the reader view                                                 *)

GestureInit ==
    /\ app \in {"ZenReader", "ZenKeeper"}
    /\ state = [currentView |-> "reader", uiHidden |-> FALSE,
                settingsSheetOpen |-> FALSE, sidebarOpen |-> FALSE,
                bookState |-> IF app = "ZenKeeper" THEN "reading" ELSE "idle"]
    /\ writes = <<>>
    /\ fired = <<>>
    /\ ran = <<>>
    /\ listeners = IF app = "ZenReader" THEN ZR_listeners ELSE ZK_listeners
    /\ gesture = "idle"
    /\ last = Plain("init")
    /\ touchStartX = Null
    /\ touchStartY = Null
    /\ touchStartTime = Null
    /\ touchTarget = <<>>
    /\ now = 0
    /\ longPressTimer = "none"
    /\ isSelectionMode = FALSE
    /\ callbacks = IF app = "ZenReader" THEN ZR_initGestures
                   ELSE setupReaderGestures(ZK_initGestures)
    /\ opening = FALSE
    /\ ReaderIdle

GestureNext ==
    \/ \E p \in Starts, path \in Paths : TouchStart(p, path)
    \/ \E t \in TimePoints : Advance(t)
    \/ \E dx \in MoveDeltas, dy \in MoveDeltas : TouchMove(dx, dy)
    \/ LongPress
    \/ \E dx \in Deltas, dy \in Deltas : TouchEnd(dx, dy)
    \/ TouchCancel
    \/ \E path \in Paths : Click(path)

GestureSpec == GestureInit /\ [][GestureNext]_vars

----------------------------------------------------------------------------
(* The recognizers as a library: the caller replaces callbacks between the *)
(* touches, time passes during a touch and a due timer fires               *)

\* arguments of updateCallbacks
CallbackUpdates ==
    [tap       |-> [onTap |-> "cbA"],
     tapAndUp  |-> [onTap |-> "cbB", onSwipeUp |-> "cbA"],
     noDown    |-> [onSwipeDown |-> NoCallback],
     selection |-> [onSelectionStart |-> "cbA", onSelectionEnd |-> "cbB"],
     left      |-> [onSwipeLeft |-> "cbB"]]

UpdateCallbacks(u) ==
    /\ callbacks' = IF app = "ZenReader"
                    THEN ZR_updateCallbacks(callbacks, CallbackUpdates[u])
                    ELSE updateCallbacks(callbacks, CallbackUpdates[u])
    /\ Commit(Begin(state))
    /\ last' = Event("updateCallbacks", 0, 0, 0, <<>>, u)
    /\ QuietTouch

\* clock readings around the long press delay
HoldTimes == {100, 400}

RecognizerNext ==
    \/ \E p \in Starts, path \in CoarsePaths : TouchStart(p, path)
    \/ \E t \in HoldTimes : Advance(t)
    \/ \E dx \in MoveDeltas, dy \in MoveDeltas : TouchMove(dx, dy)
    \/ LongPress
    \/ \E dx \in CoarseDeltas, dy \in CoarseDeltas : TouchEnd(dx, dy)
    \/ TouchCancel
    \/ \E u \in DOMAIN CallbackUpdates : UpdateCallbacks(u)

\* the clock runs while a touch is down, and a timer that is due fires
RecognizerSpec ==
    /\ GestureInit
    /\ [][RecognizerNext]_vars
    /\ WF_vars(\E t \in HoldTimes : Advance(t))
    /\ WF_vars(LongPress)

----------------------------------------------------------------------------
(* Reading progress: scroll events, what the reader shows and what it      *)
(* stores.  An article is opened and left in one step here.                *)

recognizerVars == <<listeners, gesture, touchStartX, touchStartY, touchStartTime,
                    touchTarget, now, longPressTimer, isSelectionMode, opening>>

\* <<scrollHeight of the content, height of the viewport>> of an open
\* article: content one screen and two and a half screens taller than the
\* viewport, and shorter than it
Geometries == {<<200, 100>>, <<350, 100>>, <<90, 100>>}

\* scroll offsets the browser reports
ScrollOffsets == {0, 90, 150, 226}

\* how far the browser lets a scroll offset leave 0 .. scrollable height
\* (elastic scrolling; padding around the content)
MaxOverscroll == 50

CanScrollTo(y) ==
    LET range == IF contentHeight > viewportHeight
                 THEN contentHeight - viewportHeight ELSE 0
    IN  -MaxOverscroll <= y /\ y <= range + MaxOverscroll

Applied(fn, args, result) == [fn |-> fn, args |-> args, result |-> result]

(* ZenReader *)

\* openArticle: storage.getArticle, then ui.renderReader
ZR_ReadArticle(id, g) ==
    /\ app = "ZenReader"
    /\ state.currentView = "library"
    /\ Commit(ZR_renderReader(Begin(state)))
    /\ currentArticleId' = id
    /\ displayed' = id
    /\ contentHeight' = g[1]
    /\ viewportHeight' = g[2]
    /\ scrollTop' = Whole(0)
    /\ db' = getArticle(db, id)
    /\ last' = Plain("readArticle")
    /\ UNCHANGED <<app, recognizerVars, storageVars, callbacks, indicator, ticking,
                   scrollTimeout, clock, saves, call>>

\* back button: ui.showLibrary, which also forgets the open article
ZR_LeaveReader ==
    /\ app = "ZenReader"
    /\ state.currentView = "reader"
    /\ Commit(ZR_showLibrary(Begin(state)))
    /\ currentArticleId' = Null
    /\ displayed' = Null
    /\ contentHeight' = 0      \* the library page does not scroll
    /\ viewportHeight' = 0
    /\ scrollTop' = Whole(0)
    /\ last' = Plain("showLibrary")
    /\ UNCHANGED <<app, recognizerVars, storageVars, callbacks, indicator, db, ticking,
                   scrollTimeout, clock, saves, call>>

\* scroll listener of setupScrollProgress: requests a frame unless one is
\* requested already
ZR_ScrollEvent(y) ==
    /\ app = "ZenReader"
    /\ state.currentView = "reader"
    /\ CanScrollTo(y)
    /\ scrollTop' = Whole(y)
    /\ ticking' = TRUE
    /\ Commit(Begin(state))
    /\ last' = Plain("scroll")
    /\ UNCHANGED <<app, recognizerVars, storageVars, callbacks, currentArticleId, displayed, contentHeight,
                   viewportHeight, indicator, db, scrollTimeout, clock, saves, call>>

\* the requestAnimationFrame callback of setupScrollProgress
ZR_AnimationFrame ==
    /\ app = "ZenReader"
    /\ ticking
    /\ LET progress == ZR_progress(scrollTop, contentHeight, viewportHeight)
           id == currentArticleId
           d1 == IF id # Null /\ Less(Whole(0), progress)
                 THEN storage_updateProgress(db, id, MathRound(progress)) ELSE db
           d2 == IF id # Null /\ Less(Whole(0), progress) /\ exceedsReadThreshold(progress)
                 THEN markAsRead(d1, id) ELSE d1
       IN  /\ indicator' = updateProgress(progress)
           /\ db' = d2
           /\ call' = Applied("progress", <<scrollTop, contentHeight, viewportHeight>>,
                              progress)
    /\ ticking' = FALSE
    /\ Commit(Begin(state))
    /\ last' = Plain("frame")
    /\ UNCHANGED <<app, recognizerVars, storageVars, callbacks, currentArticleId, displayed, contentHeight,
                   viewportHeight, scrollTop, scrollTimeout, clock, saves>>

(* ZenKeeper *)

\* delay of the debounced save in handleScroll
SAVE_DELAY == 500

\* db.readingProgress.put of saveProgress (src/unnamed/part_002); a 0 stays 0
\* under "|| 0"
saveProgress(d, id, progress) ==
    [d EXCEPT ![id] = [saved |-> TRUE,
                       scrollPosition |-> progress.scrollPosition,
                       percentage |-> progress.percentage]]

\* openArticle: getProgress, initArticle (which restores the scroll position
\* when the stored percentage is not 0), setReading, setupReaderGestures
ZK_ReadArticle(id, g) ==
    /\ app = "ZenKeeper"
    /\ state.currentView = "library"
    /\ Commit(setReading(setLoading(Begin(state))))
    /\ currentArticleId' = id
    /\ displayed' = id
    /\ contentHeight' = g[1]
    /\ viewportHeight' = g[2]
    /\ scrollTop' = IF db[id].percentage # 0
                    THEN percentageToScrollTop(db[id].percentage, g[1], g[2])
                    ELSE Whole(0)
    /\ indicator' = Whole(db[id].percentage)
    /\ callbacks' = setupReaderGestures(callbacks)
    /\ last' = Plain("readArticle")
    /\ UNCHANGED <<app, recognizerVars, storageVars, db, ticking, scrollTimeout, clock, saves,
                   call>>

\* backToLibrary: articleReader.destroy() clears the pending save
ZK_LeaveReader ==
    /\ app = "ZenKeeper"
    /\ state.currentView = "reader"
    /\ Commit(ZK_showLibrary(Begin(state)))
    /\ currentArticleId' = Null
    /\ displayed' = Null
    /\ scrollTimeout' = clearTimeout(scrollTimeout)
    /\ clock' = 0
    /\ contentHeight' = 0      \* container = null, contentElement = null
    /\ viewportHeight' = 0
    /\ scrollTop' = Whole(0)
    /\ last' = Plain("showLibrary")
    /\ UNCHANGED <<app, recognizerVars, storageVars, callbacks, indicator, db, ticking, saves,
                   call>>

\* the delays of pending timers counted from the time elapsed
sinceNow(timers, elapsed) ==
    [i \in DOMAIN timers |->
        [timers[i] EXCEPT !.due = IF @ > elapsed THEN @ - elapsed ELSE 0]]

\* handleScroll: shows the percentage at once and restarts the timer of the
\* save.  top: the new container.scrollTop.  restart: whether a timer was
\* pending.
ZK_ScrollEvent(top) ==
    /\ app = "ZenKeeper"
    /\ state.currentView = "reader"
    /\ top.d = 1 => CanScrollTo(top.n)
    /\ scrollTop' = top
    /\ LET percentage == getScrollPercentage(top, contentHeight, viewportHeight)
       IN  /\ Commit(updateState(Begin(state), <<>>))
           /\ indicator' = Whole(percentage)
           /\ scrollTimeout' =
                 Append(sinceNow(clearTimeout(scrollTimeout), clock),
                        [due |-> SAVE_DELAY, percentage |-> percentage,
                         restart |-> scrollTimeout # NoTimer])
           /\ call' = Applied("getScrollPercentage",
                              <<top, contentHeight, viewportHeight>>, percentage)
    /\ clock' = 0
    /\ saves' = IF scrollTimeout = NoTimer THEN <<>> ELSE saves
    /\ last' = Plain("scroll")
    /\ UNCHANGED <<app, recognizerVars, storageVars, callbacks, currentArticleId, displayed, contentHeight,
                   viewportHeight, db, ticking>>

\* clock readings after a scroll event
SaveTimes == {499, 500}

\* time passes while a save is pending
Tick(t) ==
    /\ scrollTimeout # NoTimer
    /\ t > clock
    /\ clock' = t
    /\ UNCHANGED <<app, state, writes, fired, ran, last, recognizerVars, storageVars, callbacks,
                   currentArticleId, displayed, contentHeight, viewportHeight, scrollTop,
                   indicator, db, ticking, scrollTimeout, saves, call>>

\* the timer of handleScroll fires: onNavigateCallback is handleNavigation
\* of the app, which saves and then shows the percentage
ZK_ScrollTimer ==
    /\ app = "ZenKeeper"
    /\ scrollTimeout # NoTimer
    /\ clock >= scrollTimeout[1].due
    /\ scrollTimeout' = Tail(scrollTimeout)
    /\ IF currentArticleId = Null
       THEN /\ Commit(Begin(state))
            /\ UNCHANGED <<db, indicator, saves>>
       ELSE LET data == [scrollPosition |-> scrollTop,
                         percentage |-> scrollTimeout[1].percentage]
            IN  /\ db' = saveProgress(db, currentArticleId, data)
                /\ saves' = Append(saves, [articleId |-> currentArticleId,
                                           percentage |-> data.percentage,
                                           restart |-> scrollTimeout[1].restart])
                /\ Commit(updateState(Begin(state), <<>>))
                /\ indicator' = Whole(data.percentage)
    /\ last' = Plain("scrollTimer")
    /\ UNCHANGED <<app, recognizerVars, storageVars, callbacks, currentArticleId, displayed, contentHeight,
                   viewportHeight, scrollTop, ticking, clock, call>>

ProgressInit ==
    /\ Init

ProgressNext ==
    \/ \E id \in ArticleIds, g \in Geometries : ZR_ReadArticle(id, g)
    \/ ZR_LeaveReader
    \/ \E y \in ScrollOffsets : ZR_ScrollEvent(y)
    \/ ZR_AnimationFrame
    \/ \E id \in ArticleIds, g \in Geometries : ZK_ReadArticle(id, g)
    \/ ZK_LeaveReader
    \/ \E y \in ScrollOffsets : ZK_ScrollEvent(Whole(y))
    \/ ZK_ScrollEvent(scrollTop)
    \/ \E t \in SaveTimes : Tick(t)
    \/ ZK_ScrollTimer

\* time passes and a due timer fires
ProgressSpec ==
    /\ ProgressInit
    /\ [][ProgressNext]_vars
    /\ WF_vars(\E t \in SaveTimes : Tick(t))
    /\ WF_vars(ZK_ScrollTimer)

----------------------------------------------------------------------------
(* Teardown of the ZenKeeper reader and of its recognizer while their      *)
(* timers are pending                                                      *)

\* the long press timer is left running
cancelLongPress_LeavesTimer(timer) == timer

\* clearTimeout(longPressTimer)
cancelLongPress(timer) == "none"

\* destroyGestures: the listeners are removed, the timers cleared, the
\* selection and the touch tracking reset; last.branch: the long press timer
\* as it was
DestroyGestures ==
    /\ listeners # {}
    /\ listeners' = {}
    /\ longPressTimer' = cancelLongPress(longPressTimer)
    /\ isSelectionMode' = FALSE
    /\ resetTouch
    /\ touchTarget' = <<>>
    /\ now' = 0
    /\ gesture' = "idle"
    /\ Commit(Begin(state))
    /\ last' = Event("destroyGestures", 0, 0, 0, <<>>, longPressTimer)
    /\ UNCHANGED <<readerVars, app, callbacks, opening>>

\* initGestures() after a teardown: the listeners are bound again and every
\* callback is null
InitGestures ==
    /\ listeners = {}
    /\ listeners' = ZK_listeners
    /\ callbacks' = ZK_initGestures
    /\ Commit(Begin(state))
    /\ last' = Plain("initGestures")
    /\ UNCHANGED <<readerVars, app, gesture, touchStartX, touchStartY,
                   touchStartTime, touchTarget, now, longPressTimer,
                   isSelectionMode, opening>>

\* the article and the geometry of the teardown runs
TeardownGeometry == <<200, 100>>

TeardownOffsets == {0, 90}

TeardownInit ==
    /\ Init
    /\ app = "ZenKeeper"

TeardownNext ==
    \/ \E id \in ArticleIds : ZK_ReadArticle(id, TeardownGeometry)
    \/ ZK_LeaveReader
    \/ \E y \in TeardownOffsets : ZK_ScrollEvent(Whole(y))
    \/ \E t \in SaveTimes : Tick(t)
    \/ ZK_ScrollTimer
    \/ \E q \in Starts : TouchStart(q, <<gestureTarget>>)
    \/ \E t \in HoldTimes : Advance(t)
    \/ \E dx \in MoveDeltas : TouchMove(dx, 0)
    \/ LongPress
    \/ TouchEnd(0, 0)
    \/ TouchCancel
    \/ DestroyGestures
    \/ InitGestures

TeardownSpec == TeardownInit /\ [][TeardownNext]_vars

----------------------------------------------------------------------------
(* Storage and the asynchronous operations of the apps.  An operation is   *)
(* a task that advances from one await to the next; a call of the database *)
(* or of the file system succeeds or rejects.                              *)

\* operations in flight at once
MaxTasks == 2

Task(fn, id, pc) == [fn |-> fn, id |-> id, pc |-> pc]

\* the task t is at pc
At(t, fn, pc) == t \in tasks /\ t.fn = fn /\ t.pc = pc

\* t becomes the task u; no other operation is at the very same place
Becomes(t, u) == /\ u \notin tasks
                 /\ tasks' = (tasks \ {t}) \cup {u}

\* t moves on to pc
Goto(t, pc) == Becomes(t, [t EXCEPT !.pc = pc])

\* the operation u begins
Start(u) == /\ Cardinality(tasks) < MaxTasks
            /\ u \notin tasks
            /\ tasks' = tasks \cup {u}

\* t has returned or thrown
Finish(t) == tasks' = tasks \ {t}

\* the variables an operation of the storage leaves alone
StorageFrame ==
    UNCHANGED <<app, recognizerVars, callbacks, contentHeight, viewportHeight,
                scrollTop, indicator, db, ticking, scrollTimeout, clock, saves>>

\* the step after step in the list of deleteArticle, "resolved" after the last
AfterStep(a, step) ==
    LET steps == DeleteSteps(a)
        i == CHOOSE k \in DOMAIN steps : steps[k] = step
    IN  IF i = Len(steps) THEN "resolved" ELSE steps[i + 1]

\* the delete button of a card (article-delete) or, in ZenReader, of the
\* reader, confirmed: app deleteArticle runs up to db.articles.get
DeleteArticle(id) ==
    /\ IF app = "ZenKeeper" THEN state.currentView = "library"
       ELSE state.currentView = "library" \/ currentArticleId = id
    /\ Start(Task("deleteArticle", id, "get"))
    /\ Commit(Begin(state))
    /\ last' = Plain("deleteArticle")
    /\ StorageFrame
    /\ UNCHANGED <<currentArticleId, displayed, store, notice, call>>

\* db.articles.get(id) of storage.deleteArticle settles
DeleteArticleGet(t, ok) ==
    /\ At(t, "deleteArticle", "get")
    /\ IF ~ok THEN
          /\ Finish(t)
          /\ call' = Applied("deleteArticle", <<t.id>>, "rejected")
       ELSE IF t.id \notin store.articles THEN
          /\ Goto(t, "absent")
          /\ UNCHANGED call
       ELSE
          /\ Goto(t, DeleteSteps(app)[1])
          /\ UNCHANGED call
    /\ Commit(Begin(state))
    /\ last' = Plain("deleteArticle")
    /\ StorageFrame
    /\ UNCHANGED <<currentArticleId, displayed, store, notice>>

\* the next await of storage.deleteArticle settles; a rejection reaches the
\* catch block of the app, which logs it
DeleteArticleStep(t, ok) ==
    /\ t \in tasks
    /\ t.fn = "deleteArticle"
    /\ t.pc \in {DeleteSteps(app)[i] : i \in DOMAIN DeleteSteps(app)}
    /\ t.pc = "progress" => IsNext(store, Request("delete", t.id))
    /\ IF t.pc = "content" THEN
          /\ store' = deleteArticleContent(store, t.id, ok)
          /\ Goto(t, AfterStep(app, t.pc))
          /\ UNCHANGED call
       ELSE IF ok THEN
          /\ store' = IF AfterStep(app, t.pc) = "progress"
                       THEN enqueue(deleteArticle_step(store, t.pc, t.id),
                                    Request("delete", t.id))
                       ELSE deleteArticle_step(store, t.pc, t.id)
          /\ Goto(t, AfterStep(app, t.pc))
          /\ UNCHANGED call
       ELSE
          /\ store' = IF t.pc = "progress" THEN dequeue(store) ELSE store
          /\ Finish(t)
          /\ call' = Applied("deleteArticle", <<t.id>>, "rejected")
    /\ Commit(Begin(state))
    /\ last' = Plain("deleteArticle")
    /\ StorageFrame
    /\ UNCHANGED <<currentArticleId, displayed, notice>>

\* storage.deleteArticle has returned: the ZenReader app shows the library
\* when the deleted article is the open one; both go on to loadLibrary
DeleteArticleReturn(t) ==
    /\ t \in tasks
    /\ t.fn = "deleteArticle"
    /\ t.pc \in {"resolved", "absent"}
    /\ call' = Applied("deleteArticle", <<t.id>>, t.pc)
    /\ IF app = "ZenReader" /\ currentArticleId = t.id
       THEN /\ Commit(ZR_showLibrary(Begin(state)))
            /\ currentArticleId' = Null
            /\ displayed' = Null
       ELSE /\ Commit(Begin(state))
            /\ UNCHANGED <<currentArticleId, displayed>>
    /\ Goto(t, "loadLibrary")
    /\ last' = Plain("deleteArticle")
    /\ StorageFrame
    /\ UNCHANGED <<store, notice>>

\* loadLibrary: storage.getAllArticles settles; the list is rendered, or the
\* failure is logged
LoadLibrary(t, ok) ==
    /\ t \in tasks
    /\ t.pc = "loadLibrary"
    /\ Finish(t)
    /\ Commit(Begin(state))
    /\ last' = Event("loadLibrary", 0, 0, 0, <<>>, IF ok THEN "rendered" ELSE "logged")
    /\ StorageFrame
    /\ UNCHANGED <<currentArticleId, displayed, store, notice, call>>

\* the card of an article is tapped (article-open): app openArticle runs up
\* to db.articles.get of storage.getArticle; ZenKeeper shows the loading state
OpenArticle(id) ==
    /\ state.currentView = "library"
    /\ Start(Task("openArticle", id, "get"))
    /\ IF app = "ZenKeeper" THEN Commit(setLoading(Begin(state)))
       ELSE Commit(Begin(state))
    /\ last' = Plain("openArticle")
    /\ StorageFrame
    /\ UNCHANGED <<currentArticleId, displayed, store, notice, call>>

\* storage.getArticle throws error: the catch block of openArticle logs it
\* and, in ZenKeeper, calls ui.setError
GetArticleThrows(t, error) ==
    /\ Finish(t)
    /\ call' = Applied("getArticle", <<t.id>>, error)
    /\ IF app = "ZenKeeper"
       THEN /\ Commit(setError(Begin(state)))
            /\ notice' = "Failed to open article"
       ELSE /\ Commit(Begin(state))
            /\ UNCHANGED notice
    /\ UNCHANGED <<currentArticleId, displayed, store>>

\* db.articles.get(id) of storage.getArticle settles
GetArticleGet(t, ok) ==
    /\ At(t, "openArticle", "get")
    /\ IF ~ok THEN GetArticleThrows(t, "rejected")
       ELSE IF t.id \notin store.articles
       THEN GetArticleThrows(t, "Article not found")
       ELSE /\ Goto(t, "content")
            /\ Commit(Begin(state))
            /\ UNCHANGED <<currentArticleId, displayed, store, notice, call>>
    /\ last' = Plain("getArticle")
    /\ StorageFrame

\* getArticleContent(id) settles: the file is read, or whatever went wrong is
\* thrown as 'Article content not found'
GetArticleContent(t, ok) ==
    /\ At(t, "openArticle", "content")
    /\ IF ok /\ t.id \in store.content
       THEN /\ Goto(t, "update")
            /\ Commit(Begin(state))
            /\ UNCHANGED <<currentArticleId, displayed, store, notice, call>>
       ELSE GetArticleThrows(t, "Article content not found")
    /\ last' = Plain("getArticle")
    /\ StorageFrame

\* the last-read time is not written
touch_NoWrite(st, id) == st

\* db.articles.update(id, {readAt / lastReadAt}): no row, nothing written
touch(st, id) ==
    IF id \in st.articles THEN [st EXCEPT !.readAt = @ \cup {id}] ELSE st

\* what openArticle awaits after storage.getArticle: nothing in ZenReader,
\* storage.getProgress and storage.getBookmarks in ZenKeeper
OpenSteps(a) ==
    IF a = "ZenReader" THEN <<>> ELSE <<"getProgress", "getBookmarks">>

\* openArticle has all it awaited: the article is shown.  ZenReader renders
\* it here (ui.renderReader sets the id and the content); ZenKeeper has set
\* its currentArticleId after getArticle and filled the reader in
\* initArticle, and calls ui.setReading and setupReaderGestures
ShowArticle(t) ==
    /\ Finish(t)
    /\ IF app = "ZenKeeper"
       THEN /\ Commit(setReading(Begin(state)))
            /\ callbacks' = setupReaderGestures(callbacks)
            /\ UNCHANGED <<currentArticleId, displayed>>
       ELSE /\ Commit(ZR_renderReader(Begin(state)))
            /\ currentArticleId' = t.id
            /\ displayed' = t.id
            /\ UNCHANGED callbacks

\* db.articles.update of storage.getArticle settles and getArticle returns
\* the article with its content: ZenReader renders it, ZenKeeper notes the
\* open article and goes on to getProgress
GetArticleUpdate(t, ok) ==
    /\ At(t, "openArticle", "update")
    /\ IF ~ok THEN GetArticleThrows(t, "rejected") /\ UNCHANGED callbacks
       ELSE /\ store' = touch(store, t.id)
            /\ call' = Applied("getArticle", <<t.id>>, "returned")
            /\ UNCHANGED notice
            /\ IF OpenSteps(app) = <<>> THEN ShowArticle(t)
               ELSE /\ Goto(t, OpenSteps(app)[1])
                    /\ Commit(setLoading(Begin(state)))
                    /\ currentArticleId' = t.id
                    /\ UNCHANGED displayed
                    /\ UNCHANGED callbacks
    /\ last' = Plain("getArticle")
    /\ UNCHANGED <<app, touchStartX, touchStartY, touchStartTime, touchTarget, now,
                   longPressTimer, isSelectionMode, listeners, gesture, opening,
                   contentHeight, viewportHeight, scrollTop, indicator, db, ticking,
                   scrollTimeout, clock, saves>>

\* ZenKeeper openArticle: storage.getProgress or storage.getBookmarks settles
OpenArticleStep(t, ok) ==
    /\ t \in tasks
    /\ t.fn = "openArticle"
    /\ t.pc \in {OpenSteps(app)[i] : i \in DOMAIN OpenSteps(app)}
    /\ IF ~ok THEN
          /\ Finish(t)
          /\ Commit(setError(Begin(state)))
          /\ notice' = "Failed to open article"
          /\ UNCHANGED <<currentArticleId, displayed, callbacks>>
       ELSE IF t.pc = OpenSteps(app)[Len(OpenSteps(app))] THEN
          /\ ShowArticle(t)
          /\ UNCHANGED notice
       ELSE
          /\ Goto(t, "getBookmarks")
          /\ Commit(setLoading(Begin(state)))
          /\ displayed' = t.id      \* articleReader.initArticle(article.markdown)
          /\ UNCHANGED <<currentArticleId, callbacks, notice>>
    /\ last' = Plain("openArticle")
    /\ UNCHANGED <<app, touchStartX, touchStartY, touchStartTime, touchTarget, now,
                   longPressTimer, isSelectionMode, listeners, gesture, opening,
                   contentHeight, viewportHeight, scrollTop, indicator, db, ticking,
                   scrollTimeout, clock, saves, store, call>>

\* the saves of the reading progress.  ZenKeeper: the timer of the reader
\* runs handleNavigation, which calls storage.saveProgress for the article
\* that is open then (db.readingProgress.put).  ZenReader: the frame of
\* setupScrollProgress calls storage.updateProgress (db.articles.update).
\* The pc of a save also tells whether it was made for an article whose
\* delete had settled by then ("late").
SaveTask(a, id, late) ==
    Task(IF a = "ZenKeeper" THEN "saveProgress" ELSE "updateProgress", id,
         IF late THEN "late" ELSE "put")

\* a deleteArticle(id) of the app has not settled
Deleting(id) == \E t \in tasks : t.fn = "deleteArticle" /\ t.id = id

HandleNavigation ==
    /\ currentArticleId # Null
    /\ displayed # Null       \* the reader that calls back has been set up
    /\ state.currentView = "reader"
    /\ app = "ZenKeeper" => state.bookState = "reading"
    /\ LET late == currentArticleId \notin store.articles /\ ~Deleting(currentArticleId)
       IN  /\ Start(SaveTask(app, currentArticleId, late))
           /\ store' = IF app = "ZenKeeper"
                        THEN enqueue(store, Request("put", currentArticleId))
                        ELSE store
    /\ Commit(Begin(state))
    /\ last' = Plain("handleNavigation")
    /\ StorageFrame
    /\ UNCHANGED <<currentArticleId, displayed, notice, call>>

\* db.readingProgress.put of storage.saveProgress writes the row of id
readingProgress_put(st, id) == dequeue([st EXCEPT !.progress = @ \cup {id}])

\* a request of storage.deleteArticle has settled and deleteArticle is about
\* to return: it does so before the next request settles
Returning == \E d \in tasks : d.fn = "deleteArticle" /\ d.pc = "resolved"

\* the request of a save settles.  db.articles.update of ZenReader writes
\* the progress into the row of the article, if there is one; nothing
\* handles a rejection
SaveSettles(t, ok) ==
    /\ t \in tasks
    /\ t.fn \in {"saveProgress", "updateProgress"}
    /\ Finish(t)
    /\ IF t.fn = "saveProgress"
       THEN /\ IsNext(store, Request("put", t.id))
            /\ ~Returning
            /\ store' = IF ok THEN readingProgress_put(store, t.id) ELSE dequeue(store)
       ELSE UNCHANGED store
    /\ Commit(Begin(state))
    /\ last' = Event("saveProgress", 0, 0, 0, <<>>, IF ok THEN "saved" ELSE "unhandled")
    /\ StorageFrame
    /\ UNCHANGED <<currentArticleId, displayed, notice, call>>

\* the article the operations are started for; the other one is left alone
TargetIds == {1}

StorageInit == Init

StorageNext ==
    \/ \E id \in TargetIds : DeleteArticle(id)
    \/ \E t \in tasks, ok \in BOOLEAN : DeleteArticleGet(t, ok)
    \/ \E t \in tasks, ok \in BOOLEAN : DeleteArticleStep(t, ok)
    \/ \E t \in tasks : DeleteArticleReturn(t)
    \/ \E t \in tasks, ok \in BOOLEAN : LoadLibrary(t, ok)
    \/ \E id \in TargetIds : OpenArticle(id)
    \/ \E t \in tasks, ok \in BOOLEAN : GetArticleGet(t, ok)
    \/ \E t \in tasks, ok \in BOOLEAN : GetArticleContent(t, ok)
    \/ \E t \in tasks, ok \in BOOLEAN : GetArticleUpdate(t, ok)
    \/ \E t \in tasks, ok \in BOOLEAN : OpenArticleStep(t, ok)
    \/ HandleNavigation
    \/ \E t \in tasks, ok \in BOOLEAN : SaveSettles(t, ok)
    \/ ZR_LeaveReader
    \/ ZK_LeaveReader

StorageSpec == StorageInit /\ [][StorageNext]_vars

----------------------------------------------------------------------------
(* Adding an article: the submit handlers of the url forms, the remote      *)
(* extraction and storage.addArticle                                        *)

\* the text of the url field after trim(), as the tokens a parser splits it
\* into: empty, words without a scheme, and urls with a scheme
Urls == {<<>>,
         <<"example">>,
         <<"ftp", ":", "//example.com/a">>,
         <<"https", ":", "//example.com/a">>}

TypeError == [protocol |-> "TypeError"]

\* new URL(url): the parsed url, or a TypeError when the text has no scheme
newURL(url) ==
    IF Len(url) >= 2 /\ url[2] = ":" THEN [protocol |-> url[1]] ELSE TypeError

\* api.isValidUrl: the url parses and its protocol is http: or https:
isValidUrl(url) == newURL(url).protocol \in {"http", "https"}

\* the id db.articles.add gives the article added (++id)
NewId == 3

\* what the extraction endpoint answers: the article, or a failure with its
\* reason; "network error" is the rejection of fetch itself
ExtractOutcomes ==
    {"article", "network error", "invalid URL", "fetch failure",
     "no extractable content", "unexpected error"}

\* every response is taken as the article
responseOk_Always(outcome) == TRUE

\* fetch resolved and response.ok
responseOk(outcome) == outcome = "article"

\* the catch block of the add operation: ZenReader shows the message in the
\* add form and ends its loading state, ZenKeeper calls ui.setError
AddFails(t, message) ==
    /\ Finish(t)
    /\ notice' = message
    /\ IF app = "ZenKeeper" THEN Commit(setError(Begin(state)))
       ELSE Commit(Begin(state))

\* submit of the url form.  ZenReader: addArticle(url) when the url is valid,
\* else ui.showAddError.  ZenKeeper handleUrlSubmit: nothing for an empty
\* field, a toast when new URL throws, else ui.setLoading and
\* storage.findArticleByUrl
SubmitUrl(url) ==
    /\ Cardinality(tasks) < MaxTasks
    /\ state.currentView = "library"
    /\ IF app = "ZenReader" THEN
          IF url # <<>> /\ isValidUrl(url)
          THEN /\ Start(Task("addArticle", Null, "extract"))
               /\ Commit(Begin(state))
               /\ last' = Event("submit", 0, 0, 0, url, "accepted")
               /\ UNCHANGED notice
          ELSE /\ notice' = "Please enter a valid URL"
               /\ Commit(Begin(state))
               /\ last' = Event("submit", 0, 0, 0, url, "rejected")
               /\ UNCHANGED tasks
       ELSE
          IF url = <<>>
          THEN /\ Commit(Begin(state))
               /\ last' = Event("submit", 0, 0, 0, url, "ignored")
               /\ UNCHANGED <<tasks, notice>>
          ELSE IF newURL(url) = TypeError
          THEN /\ notice' = "Please enter a valid URL"
               /\ Commit(Begin(state))
               /\ last' = Event("submit", 0, 0, 0, url, "rejected")
               /\ UNCHANGED tasks
          ELSE /\ Start(Task("addArticle", Null, "findArticleByUrl"))
               /\ Commit(setLoading(Begin(state)))
               /\ last' = Event("submit", 0, 0, 0, url, "accepted")
               /\ UNCHANGED notice
    /\ StorageFrame
    /\ UNCHANGED <<currentArticleId, displayed, store, call>>

\* ZenKeeper: storage.findArticleByUrl settles; an article saved from the url
\* is opened, else the extraction is requested
AddFind(t, ok) ==
    /\ At(t, "addArticle", "findArticleByUrl")
    /\ IF ~ok THEN AddFails(t, "Failed to add article")
       ELSE IF NewId \in store.articles
       THEN /\ Becomes(t, Task("openArticle", NewId, "get"))
            /\ Commit(setLoading(Begin(state)))
            /\ UNCHANGED notice
       ELSE /\ Goto(t, "extract")
            /\ Commit(setLoading(Begin(state)))
            /\ UNCHANGED notice
    /\ last' = Plain("addArticle")
    /\ StorageFrame
    /\ UNCHANGED <<currentArticleId, displayed, store, call>>

\* extractArticle settles: the add goes on to storage.addArticle with the
\* article, or the failure is thrown to the catch block
AddExtract(t, outcome) ==
    /\ At(t, "addArticle", "extract")
    /\ IF responseOk(outcome)
       THEN /\ Goto(t, "add")
            /\ IF app = "ZenKeeper" THEN Commit(setLoading(Begin(state)))
               ELSE Commit(Begin(state))
            /\ UNCHANGED notice
       ELSE AddFails(t, outcome)
    /\ call' = Applied("extractArticle", <<>>, outcome)
    /\ last' = Plain("addArticle")
    /\ StorageFrame
    /\ UNCHANGED <<currentArticleId, displayed, store>>

\* db.articles.add of storage.addArticle settles
AddMetadata(t, ok) ==
    /\ At(t, "addArticle", "add")
    /\ NewId \notin store.articles
    /\ IF ok
       THEN /\ store' = [store EXCEPT !.articles = @ \cup {NewId}]
            /\ Becomes(t, Task("addArticle", NewId, "save"))
            /\ Commit(Begin(state))
            /\ UNCHANGED notice
       ELSE /\ AddFails(t, "Failed to add article")
            /\ UNCHANGED store
    /\ last' = Plain("addArticle")
    /\ StorageFrame
    /\ UNCHANGED <<currentArticleId, displayed, call>>

\* saveArticleContent of storage.addArticle settles; then ZenReader reloads
\* the library and ZenKeeper opens the article
AddContent(t, ok) ==
    /\ At(t, "addArticle", "save")
    /\ IF ok
       THEN /\ store' = [store EXCEPT !.content = @ \cup {t.id}]
            /\ IF app = "ZenKeeper"
               THEN /\ Becomes(t, Task("openArticle", t.id, "get"))
                    /\ Commit(setLoading(Begin(state)))
               ELSE /\ Goto(t, "loadLibrary")
                    /\ Commit(Begin(state))
            /\ UNCHANGED notice
       ELSE /\ AddFails(t, "Failed to add article")
            /\ UNCHANGED store
    /\ last' = Plain("addArticle")
    /\ StorageFrame
    /\ UNCHANGED <<currentArticleId, displayed, call>>

AddNext ==
    \/ \E url \in Urls : SubmitUrl(url)
    \/ \E t \in tasks, ok \in BOOLEAN : AddFind(t, ok)
    \/ \E t \in tasks, outcome \in ExtractOutcomes : AddExtract(t, outcome)
    \/ \E t \in tasks, ok \in BOOLEAN : AddMetadata(t, ok)
    \/ \E t \in tasks, ok \in BOOLEAN : AddContent(t, ok)
    \/ \E t \in tasks, ok \in BOOLEAN : LoadLibrary(t, ok)
    \/ NewId \in store.articles /\ OpenArticle(NewId)
    \/ \E t \in tasks, ok \in BOOLEAN : GetArticleGet(t, ok)
    \/ \E t \in tasks, ok \in BOOLEAN : GetArticleContent(t, ok)
    \/ \E t \in tasks, ok \in BOOLEAN : GetArticleUpdate(t, ok)
    \/ \E t \in tasks, ok \in BOOLEAN : OpenArticleStep(t, ok)
    \/ ZR_LeaveReader
    \/ ZK_LeaveReader

AddSpec == Init /\ [][AddNext]_vars

----------------------------------------------------------------------------
(* ZenKeeper: the bookmark button of the reader, and articles opened while *)
(* another openArticle call is suspended                                   *)

\* the positions of the reader at which the button is pressed
TogglePositions == {35, 36, 38}

\* the key generator of db.bookmarks gives no key beyond this one
MaxBookmarkKey == 4

\* a toggleBookmark call suspended at pc: the article and the position it
\* read when it began, the id of the bookmark findBookmark returned
Toggle(id, scrollPosition, pc, existing) ==
    [fn |-> "toggleBookmark", id |-> id, pc |-> pc,
     scrollPosition |-> scrollPosition, existing |-> existing]

Toggles == {t \in tasks : t.fn = "toggleBookmark"}

\* Collection.toArray(): the rows in the order of their keys
toArray(rows) ==
    [k \in 1 .. Cardinality(rows) |->
        CHOOSE r \in rows : Cardinality({x \in rows : x.id < r.id}) = k - 1]

\* db.bookmarks.add(row): the key generator gives the next key
addBookmark(st, articleId, scrollPosition) ==
    [st EXCEPT !.bookmarks = @ \cup {Bookmark(st.bookmarkKey + 1, articleId, scrollPosition)},
               !.bookmarkKey = @ + 1]

\* db.bookmarks.delete(id)
deleteBookmark(st, id) == [st EXCEPT !.bookmarks = {b \in @ : b.id # id}]

\* the steps of toggleBookmark leave these alone
ToggleFrame ==
    /\ last' = Plain("toggleBookmark")
    /\ StorageFrame
    /\ UNCHANGED <<currentArticleId, displayed, notice, call>>

\* click on the bookmark button: toggleBookmark reads the position of the
\* reader and runs up to getBookmarks of storage.findBookmark
ToggleBookmark(q) ==
    /\ app = "ZenKeeper"
    /\ state.currentView = "reader"
    /\ currentArticleId # Null
    /\ store.bookmarkKey + Cardinality(Toggles) < MaxBookmarkKey
    /\ Start(Toggle(currentArticleId, q, "find", Null))
    /\ Commit(Begin(state))
    /\ ToggleFrame
    /\ UNCHANGED store

\* storage.findBookmark settles: the bookmark found is to be deleted, or one
\* is to be added; nothing catches a rejection
ToggleFind(t, ok) ==
    /\ At(t, "toggleBookmark", "find")
    /\ IF ok
       THEN LET existing == findBookmark(toArray(store.bookmarks), t.id, t.scrollPosition)
            IN  Becomes(t, Toggle(t.id, t.scrollPosition,
                                  IF existing = NoBookmark THEN "add" ELSE "delete",
                                  existing.id))
       ELSE Finish(t)
    /\ Commit(Begin(state))
    /\ ToggleFrame
    /\ UNCHANGED store

\* storage.deleteBookmark or storage.addBookmark settles
ToggleWrite(t, ok) ==
    /\ t \in Toggles
    /\ t.pc \in {"add", "delete"}
    /\ IF ok
       THEN /\ Goto(t, "refresh")
            /\ store' = IF t.pc = "add" THEN addBookmark(store, t.id, t.scrollPosition)
                        ELSE deleteBookmark(store, t.existing)
       ELSE /\ Finish(t)
            /\ UNCHANGED store
    /\ Commit(Begin(state))
    /\ ToggleFrame

\* storage.getBookmarks settles: ui.updateState({ bookmarks })
ToggleRefresh(t, ok) ==
    /\ At(t, "toggleBookmark", "refresh")
    /\ Finish(t)
    /\ IF ok THEN Commit(updateState(Begin(state), <<>>)) ELSE Commit(Begin(state))
    /\ ToggleFrame
    /\ UNCHANGED store

\* one article is opened and left, its bookmarks are toggled
BookmarkNext ==
    \/ \E id \in TargetIds : OpenArticle(id)
    \/ \E t \in tasks, ok \in BOOLEAN : GetArticleGet(t, ok)
    \/ \E t \in tasks, ok \in BOOLEAN : GetArticleContent(t, ok)
    \/ \E t \in tasks, ok \in BOOLEAN : GetArticleUpdate(t, ok)
    \/ \E t \in tasks, ok \in BOOLEAN : OpenArticleStep(t, ok)
    \/ ZR_LeaveReader
    \/ ZK_LeaveReader
    \/ \E q \in TogglePositions : ToggleBookmark(q)
    \/ \E t \in tasks, ok \in BOOLEAN : ToggleFind(t, ok)
    \/ \E t \in tasks, ok \in BOOLEAN : ToggleWrite(t, ok)
    \/ \E t \in tasks, ok \in BOOLEAN : ToggleRefresh(t, ok)

BookmarkSpec == Init /\ [][BookmarkNext]_vars

\* the two articles are opened and left, the progress is saved
OverlapNext ==
    \/ \E id \in ArticleIds : OpenArticle(id)
    \/ \E t \in tasks, ok \in BOOLEAN : GetArticleGet(t, ok)
    \/ \E t \in tasks, ok \in BOOLEAN : GetArticleContent(t, ok)
    \/ \E t \in tasks, ok \in BOOLEAN : GetArticleUpdate(t, ok)
    \/ \E t \in tasks, ok \in BOOLEAN : OpenArticleStep(t, ok)
    \/ HandleNavigation
    \/ \E t \in tasks, ok \in BOOLEAN : SaveSettles(t, ok)
    \/ ZR_LeaveReader
    \/ ZK_LeaveReader

OverlapSpec == Init /\ [][OverlapNext]_vars

----------------------------------------------------------------------------
(* The functions of the reading position, applied to inputs on their own   *)

\* an input waiting for the function "of"
Input(of, args) == [fn |-> "input", of |-> of, args |-> args]

\* <<scrollHeight of the content, clientHeight of the container>>: maxScroll
\* 1, 3, 7, 30, 100, 333, and content shorter than the container
RoundTripGeometries ==
    {<<101, 100>>, <<103, 100>>, <<107, 100>>, <<130, 100>>, <<200, 100>>,
     <<433, 100>>, <<90, 100>>}

\* stored percentages
Percentages == 0 .. 100

\* numbers handed to ui.updateProgress: whole ones and thirds
ProgressValues ==
    {Whole(n) : n \in -10 .. 160} \cup {Rat(n, 3) : n \in {-1, 1, 100, 299, 301}}

\* positions of stored bookmarks and positions asked for
BookmarkPositions == {35, 40}

QueryPositions == 37 .. 43

\* db.bookmarks with no, one and two rows
BookmarkTables ==
    {<<>>}
    \cup {<<Bookmark(1, a, q)>> : a \in ArticleIds, q \in BookmarkPositions}
    \cup {<<Bookmark(1, a1, q1), Bookmark(2, a2, q2)>> :
              a1 \in ArticleIds, q1 \in BookmarkPositions,
              a2 \in ArticleIds, q2 \in BookmarkPositions}

RoundTripInputs ==
    {Input("roundTrip", <<q, g[1], g[2]>>) :
        q \in Percentages, g \in RoundTripGeometries}

FindBookmarkInputs ==
    {Input("findBookmark", <<d, id, q>>) :
        d \in BookmarkTables, id \in ArticleIds, q \in QueryPositions}

UpdateProgressInputs == {Input("updateProgress", <<x>>) : x \in ProgressValues}

\* init() has run and no function has been applied
NothingApplied ==
    /\ app \in {"ZenReader", "ZenKeeper"}
    /\ state = [currentView |-> "library", uiHidden |-> FALSE,
                settingsSheetOpen |-> FALSE, sidebarOpen |-> FALSE,
                bookState |-> "idle"]
    /\ writes = <<>>
    /\ fired = <<>>
    /\ ran = <<>>
    /\ listeners = IF app = "ZenReader" THEN ZR_listeners ELSE ZK_listeners
    /\ gesture = "idle"
    /\ last = Plain("init")
    /\ touchStartX = Null
    /\ touchStartY = Null
    /\ touchStartTime = Null
    /\ touchTarget = <<>>
    /\ now = 0
    /\ longPressTimer = "none"
    /\ isSelectionMode = FALSE
    /\ callbacks = IF app = "ZenReader" THEN ZR_initGestures ELSE ZK_initGestures
    /\ opening = FALSE
    /\ currentArticleId = Null
    /\ displayed = Null
    /\ contentHeight = 0
    /\ viewportHeight = 0
    /\ scrollTop = Whole(0)
    /\ indicator = Whole(0)
    /\ db = EmptyDb(app)
    /\ ticking = FALSE
    /\ scrollTimeout = NoTimer
    /\ clock = 0
    /\ saves = <<>>
    /\ StorageIdle

FunctionInit ==
    /\ NothingApplied
    /\ IF app = "ZenReader" THEN call \in UpdateProgressInputs
       ELSE call \in RoundTripInputs \/ call \in FindBookmarkInputs

FunctionFrame ==
    UNCHANGED <<app, state, writes, fired, ran, last, recognizerVars, storageVars, callbacks,
                currentArticleId, displayed, contentHeight, viewportHeight, scrollTop,
                indicator, db, ticking, scrollTimeout, saves, clock>>

\* the stored percentage is restored as a scroll offset (initArticle,
\* scrollTo) and getScrollPercentage is computed from that offset
ApplyRoundTrip ==
    /\ call.fn = "input"
    /\ call.of = "roundTrip"
    /\ LET q == call.args[1]
           H == call.args[2]
           V == call.args[3]
           offset == percentageToScrollTop(q, H, V)
       IN  call' = Applied("roundTrip", call.args,
                           [offset |-> offset,
                            percentage |-> getScrollPercentage(offset, H, V)])
    /\ FunctionFrame

\* ui.updateProgress(percentage)
ApplyUpdateProgress ==
    /\ call.fn = "input"
    /\ call.of = "updateProgress"
    /\ call' = Applied("updateProgress", call.args, updateProgress(call.args[1]))
    /\ FunctionFrame

\* storage.findBookmark(articleId, scrollPosition)
ApplyFindBookmark ==
    /\ call.fn = "input"
    /\ call.of = "findBookmark"
    /\ call' = Applied("findBookmark", call.args,
                       findBookmark(call.args[1], call.args[2], call.args[3]))
    /\ FunctionFrame

\* the next input
NextInput ==
    /\ call.fn # "input"
    /\ IF app = "ZenReader" THEN call' \in UpdateProgressInputs
       ELSE call' \in RoundTripInputs \/ call' \in FindBookmarkInputs
    /\ FunctionFrame

FunctionNext ==
    \/ ApplyRoundTrip
    \/ ApplyUpdateProgress
    \/ ApplyFindBookmark
    \/ NextInput

FunctionSpec == FunctionInit /\ [][FunctionNext]_vars

----------------------------------------------------------------------------
(* The markdown renderers (src/unnamed/part_002).  A string is the sequence *)
(* of its characters; a tag that a rule has written is one element of the  *)
(* sequence, as no later rule matches inside a tag.                         *)

\* the strings of at most n characters over the alphabet S
Texts(S, n) == UNION {[1 .. k -> S] : k \in 0 .. n}

\* s.replace(regex, ...) with the g flag: Match(s, i) is [n, by], n > 0 the
\* length of the match that begins at i and by what replaces it, or n = 0
ReplaceAll(s, Match(_, _)) ==
    LET from[i \in 1 .. Len(s) + 1] ==
            LET matches == {k \in i .. Len(s) : Match(s, k).n > 0}
            IN  IF matches = {} THEN SubSeq(s, i, Len(s))
                ELSE LET k == CHOOSE m \in matches : \A j \in matches : m <= j
                         m == Match(s, k)
                     IN  SubSeq(s, i, k - 1) \o m.by \o from[k + m.n]
    IN  from[1]

NoMatch == [n |-> 0, by |-> <<>>]

\* \s
Whitespace == {" ", "\t", "\n"}

\* [a-z] and [0-9]
LowerCase == {"a", "b", "c", "d", "e", "f", "g", "h", "i", "j", "k", "l", "m",
              "n", "o", "p", "q", "r", "s", "t", "u", "v", "w", "x", "y", "z"}

Digits == {"0", "1", "2", "3", "4", "5", "6", "7", "8", "9"}

\* the length of the run of characters of the class that begins at i
Run(s, i, class) ==
    CHOOSE n \in 0 .. Len(s) - i + 1 :
        /\ \A j \in i .. i + n - 1 : s[j] \in class
        /\ i + n > Len(s) \/ s[i + n] \notin class

\* String.prototype.toLowerCase, for the capitals of the inputs
toLowerCase(s) ==
    [i \in DOMAIN s |-> CASE s[i] = "A" -> "a"
                          [] s[i] = "B" -> "b"
                          [] OTHER -> s[i]]

\* String.prototype.trim
trim(s) ==
    LET kept == {i \in DOMAIN s : s[i] \notin Whitespace}
    IN  IF kept = {} THEN <<>>
        ELSE SubSeq(s, CHOOSE i \in kept : \A j \in kept : i <= j,
                       CHOOSE i \in kept : \A j \in kept : j <= i)

\* the runs of dashes are kept
collapseDashes_KeepsRuns(s) == s

\* .replace(/-+/g, '-')
collapseDashes(s) ==
    ReplaceAll(s, LAMBDA t, i : IF t[i] = "-"
                                THEN [n |-> Run(t, i, {"-"}), by |-> <<"-">>]
                                ELSE NoMatch)

\* slugify of the ZenKeeper renderer
slugify(text) ==
    LET lower == toLowerCase(text)
        kept == SelectSeq(lower, LAMBDA c : c \in LowerCase \cup Digits
                                                   \cup Whitespace \cup {"-"})
        dashed == ReplaceAll(trim(kept),
                             LAMBDA t, i : IF t[i] \in Whitespace
                                           THEN [n |-> Run(t, i, Whitespace),
                                                 by |-> <<"-">>]
                                           ELSE NoMatch)
    IN  collapseDashes(dashed)

\* the characters of the heading texts and the length of the longest
SlugAlphabet == {"A", "a", "1", " ", "-", "!"}

MaxSlugLen == 4

SlugInputs == {Input("slugify", <<text>>) : text \in Texts(SlugAlphabet, MaxSlugLen)}

ApplySlugify ==
    /\ call.fn = "input"
    /\ call.of = "slugify"
    /\ call' = Applied("slugify", call.args, slugify(call.args[1]))
    /\ FunctionFrame

\* the elements of a sequence
Range(s) == {s[i] : i \in DOMAIN s}

\* the string has p at i
HasAt(s, i, p) == i >= 1 /\ i + Len(p) - 1 <= Len(s) /\ SubSeq(s, i, i + Len(p) - 1) = p

\* the names after which an ampersand is taken as already escaped
Entities == {<<"a", "m", "p", ";">>, <<"l", "t", ";">>, <<"g", "t", ";">>,
             <<"q", "u", "o", "t", ";">>, <<"#", "3", "9", ";">>}

Amp == <<"&", "a", "m", "p", ";">>
Lt == <<"&", "l", "t", ";">>
Gt == <<"&", "g", "t", ";">>

\* .replace(/&(?!(amp|lt|gt|quot|#39);)/g, '&amp;')
escapeBareAmpersands(s) ==
    ReplaceAll(s, LAMBDA t, i :
        IF t[i] = "&" /\ ~\E e \in Entities : HasAt(t, i + 1, e)
        THEN [n |-> 1, by |-> Amp] ELSE NoMatch)

\* \/?(a|img)\s at i
IsAnchorOrImage(s, i) ==
    LET j == IF HasAt(s, i, <<"/">>) THEN i + 1 ELSE i
    IN  \/ HasAt(s, j, <<"a">>) /\ j + 1 <= Len(s) /\ s[j + 1] \in Whitespace
        \/ HasAt(s, j, <<"i", "m", "g">>) /\ j + 3 <= Len(s) /\ s[j + 3] \in Whitespace

\* .replace(/<(?!\/?(a|img)\s)/g, '&lt;')
escapeLessThan(s) ==
    ReplaceAll(s, LAMBDA t, i :
        IF t[i] = "<" /\ ~IsAnchorOrImage(t, i + 1)
        THEN [n |-> 1, by |-> Lt] ELSE NoMatch)

\* .replace(/(?<!["=])>/g, '&gt;')
escapeGreaterThan(s) ==
    ReplaceAll(s, LAMBDA t, i :
        IF t[i] = ">" /\ ~(i > 1 /\ t[i - 1] \in {"\"", "="})
        THEN [n |-> 1, by |-> Gt] ELSE NoMatch)

\* the three replacements renderMarkdown begins with
escapeEntities(md) == escapeGreaterThan(escapeLessThan(escapeBareAmpersands(md)))

\* the replacements of the code block callback: & < > in that order
escapeCode(code) ==
    LET amp == ReplaceAll(code, LAMBDA t, i :
                   IF t[i] = "&" THEN [n |-> 1, by |-> Amp] ELSE NoMatch)
        lt == ReplaceAll(amp, LAMBDA t, i :
                   IF t[i] = "<" THEN [n |-> 1, by |-> Lt] ELSE NoMatch)
    IN  ReplaceAll(lt, LAMBDA t, i :
                   IF t[i] = ">" THEN [n |-> 1, by |-> Gt] ELSE NoMatch)

\* \w, with the capitals of the inputs
WordChars == LowerCase \cup Digits \cup {"A", "B", "_"}

\* the grave accent, for which a string here has no notation
Grave == "grave"

Fence == <<Grave, Grave, Grave>>

PreOpen == "<pre><code class=\"language-"
PreClose == "</code></pre>"
TagEnd == "\">"

\* the first index from i on at which the string has p, or 0
IndexOf(s, i, p) ==
    LET found == {k \in i .. Len(s) : HasAt(s, k, p)}
    IN  IF found = {} THEN 0 ELSE CHOOSE k \in found : \A j \in found : k <= j

\* .replace(/'''(\w*)\n([\s\S]*?)'''/g, ...) with grave accents for the
\* quotes: the language, a line end, and
\* the code up to the next fence
codeBlocks(s) ==
    ReplaceAll(s, LAMBDA t, i :
        IF ~HasAt(t, i, Fence) THEN NoMatch
        ELSE LET w == Run(t, i + 3, WordChars)
                 j == i + 3 + w
                 k == IF HasAt(t, j, <<"\n">>) THEN IndexOf(t, j + 1, Fence) ELSE 0
             IN  IF k = 0 THEN NoMatch
                 ELSE [n |-> k + 3 - i,
                       by |-> <<PreOpen>> \o SubSeq(t, i + 3, j - 1) \o <<TagEnd>>
                              \o escapeCode(SubSeq(t, j + 1, k - 1)) \o <<PreClose>>])

\* a match of open, one or more characters of the class, close at i
Enclosed(s, i, open, class, close, before, after) ==
    IF ~HasAt(s, i, open) THEN NoMatch
    ELSE LET j == i + Len(open)
             r == Run(s, j, class)
         IN  IF r >= 1 /\ HasAt(s, j + r, close)
             THEN [n |-> Len(open) + r + Len(close),
                   by |-> <<before>> \o SubSeq(s, j, j + r - 1) \o <<after>>]
             ELSE NoMatch

\* a match of open(.+?)close at i: the shortest text of one character or more
\* on the line
Shortest(s, i, open, close, before, after) ==
    IF ~HasAt(s, i, open) THEN NoMatch
    ELSE LET j == i + Len(open)
             ends == {k \in j + 1 .. Len(s) :
                         /\ HasAt(s, k, close)
                         /\ \A x \in j .. k - 1 : s[x] # "\n"}
         IN  IF ends = {} THEN NoMatch
             ELSE LET k == CHOOSE e \in ends : \A f \in ends : e <= f
                  IN  [n |-> k + Len(close) - i,
                       by |-> <<before>> \o SubSeq(s, j, k - 1) \o <<after>>]

\* the inline code rule: a grave accent, one or more characters other than
\* it and the line end, a grave accent
inlineCode(s) ==
    ReplaceAll(s, LAMBDA t, i :
        Enclosed(t, i, <<Grave>>, {c \in Range(t) : c \notin {Grave, "\n"}}, <<Grave>>,
                 "<code>", "</code>"))

\* s.split(sep)
Split(s, sep) ==
    LET from[i \in 1 .. Len(s) + 1] ==
            LET k == IndexOf(s, i, sep)
            IN  IF k = 0 THEN <<SubSeq(s, i, Len(s))>>
                ELSE <<SubSeq(s, i, k - 1)>> \o from[k + Len(sep)]
    IN  from[1]

\* parts.join(sep)
Join(parts, sep) ==
    LET upTo[n \in 0 .. Len(parts)] ==
            IF n = 0 THEN <<>>
            ELSE IF n = 1 THEN parts[1]
            ELSE upTo[n - 1] \o sep \o parts[n]
    IN  upTo[Len(parts)]

\* a replacement of a regex of the form /^...$/gm: line by line
EachLine(s, Rule(_)) ==
    LET lines == Split(s, <<"\n">>)
    IN  Join([i \in DOMAIN lines |-> Rule(lines[i])], <<"\n">>)

\* the line is prefix and one character or more: what follows the prefix
\* between the tags, or the line as it is
Prefixed(line, prefix, before, after) ==
    IF HasAt(line, 1, prefix) /\ Len(line) > Len(prefix)
    THEN before \o SubSeq(line, Len(prefix) + 1, Len(line)) \o after
    ELSE line

\* the characters of a tag, for a rule that reads them
Spelled(s) ==
    Join([i \in DOMAIN s |->
            CASE s[i] = "<code>"  -> <<"<", "c", "o", "d", "e", ">">>
              [] s[i] = "</code>" -> <<"<", "/", "c", "o", "d", "e", ">">>
              [] OTHER -> <<s[i]>>], <<>>)

\* a heading rule: ZenReader writes <hN>text</hN>, ZenKeeper
\* <hN id="slugify(text)">text</hN>
heading(a, line, prefix, N) ==
    IF HasAt(line, 1, prefix) /\ Len(line) > Len(prefix)
    THEN LET text == SubSeq(line, Len(prefix) + 1, Len(line))
         IN  IF a = "ZenReader"
             THEN <<"<h" \o N \o ">">> \o text \o <<"</h" \o N \o ">">>
             ELSE <<"<h" \o N \o " id=\"">> \o slugify(Spelled(text)) \o <<TagEnd>>
                  \o text \o <<"</h" \o N \o ">">>
    ELSE line

\* the three heading rules, ### first
headings(a, s) ==
    LET h3 == EachLine(s, LAMBDA l : heading(a, l, <<"#", "#", "#", " ">>, "3"))
        h2 == EachLine(h3, LAMBDA l : heading(a, l, <<"#", "#", " ">>, "2"))
    IN  EachLine(h2, LAMBDA l : heading(a, l, <<"#", " ">>, "1"))

\* bold and italic: ***text***, **text**, *text*
emphasis(s) ==
    LET both == ReplaceAll(s, LAMBDA t, i :
                    Shortest(t, i, <<"*", "*", "*">>, <<"*", "*", "*">>,
                             "<strong><em>", "</em></strong>"))
        bold == ReplaceAll(both, LAMBDA t, i :
                    Shortest(t, i, <<"*", "*">>, <<"*", "*">>, "<strong>", "</strong>"))
    IN  ReplaceAll(bold, LAMBDA t, i :
            Enclosed(t, i, <<"*">>, {c \in Range(t) : c \notin {"*", "\n"}}, <<"*">>,
                     "<em>", "</em>"))

\* a match of open, text without "]", "](", target without ")", ")" at i;
\* least: the fewest characters the text may have
Bracketed(s, i, open, least, before, between, after) ==
    IF ~HasAt(s, i, open) THEN NoMatch
    ELSE LET j == i + Len(open)
             r == Run(s, j, {c \in Range(s) : c # "]"})
             k == j + r + 2
             q == Run(s, k, {c \in Range(s) : c # ")"})
         IN  IF r >= least /\ HasAt(s, j + r, <<"]", "(">>) /\ q >= 1
                /\ HasAt(s, k + q, <<")">>)
             THEN [n |-> k + q + 1 - i,
                   by |-> <<before>> \o SubSeq(s, k, k + q - 1) \o <<between>>
                          \o SubSeq(s, j, j + r - 1) \o <<after>>]
             ELSE NoMatch

\* [text](href) and then ![alt](src)
linksAndImages(s) ==
    LET links == ReplaceAll(s, LAMBDA t, i :
                    Bracketed(t, i, <<"[">>, 1, "<a href=\"",
                              "\" target=\"_blank\" rel=\"noopener noreferrer\">",
                              "</a>"))
    IN  ReplaceAll(links, LAMBDA t, i :
            LET m == Bracketed(t, i, <<"!", "[">>, 0, "<img src=\"", "\" alt=\"", "")
            IN  IF m.n = 0 THEN m
                ELSE [m EXCEPT !.by = SubSeq(@, 1, Len(@) - 1)
                                      \o <<"\" loading=\"lazy\">">>])

\* /^> (.+)$/, /^---$/, /^\*\*\*$/
blockquotesAndRules(s) ==
    LET quoted == EachLine(s, LAMBDA l :
                      Prefixed(l, <<">", " ">>, <<"<blockquote>">>, <<"</blockquote>">>))
        dashes == EachLine(quoted, LAMBDA l :
                      IF l = <<"-", "-", "-">> THEN <<"<hr>">> ELSE l)
    IN  EachLine(dashes, LAMBDA l : IF l = <<"*", "*", "*">> THEN <<"<hr>">> ELSE l)

\* a list item rule: the marker, a space and the text of one character or more
listItem(line, marker) ==
    Prefixed(line, marker \o <<" ">>, <<"<li>">>, <<"</li>">>)

\* /^[\-\*] (.+)$/ and then /^\d+\. (.+)$/
listItems(s) ==
    LET unordered == EachLine(s, LAMBDA l :
                        IF HasAt(l, 1, <<"-">>) THEN listItem(l, <<"-">>)
                        ELSE listItem(l, <<"*">>))
    IN  EachLine(unordered, LAMBDA l :
            LET d == Run(l, 1, Digits)
            IN  IF d >= 1 THEN listItem(l, SubSeq(l, 1, d) \o <<".">>) ELSE l)

\* the end of the match of (open.*close\n?)+ that begins at i, or i when
\* there is none: open, the rest of the line up to its last close, a line
\* end if there is one, and again
RunOfLines(s, i, open, close) ==
    LET upTo[p \in i .. Len(s) + 1] ==
            IF p > Len(s) \/ s[p] # open THEN p
            ELSE LET e == IndexOf(s, p, <<"\n">>)
                     lineEnd == IF e = 0 THEN Len(s) ELSE e - 1
                     closes == {k \in p + 1 .. lineEnd : s[k] = close}
                 IN  IF closes = {} THEN p
                     ELSE LET k == CHOOSE c \in closes : \A d \in closes : d <= c
                          IN  IF k + 1 <= Len(s) /\ s[k + 1] = "\n"
                              THEN upTo[k + 2] ELSE upTo[k + 1]
    IN  upTo[i]

\* html.replace(/(<li>.*<\/li>\n?)+/g, (match) => `<ul>${match}</ul>`)
wrapListItems(s) ==
    ReplaceAll(s, LAMBDA t, i :
        LET e == RunOfLines(t, i, "<li>", "</li>")
        IN  IF e = i THEN NoMatch
            ELSE [n |-> e - i, by |-> <<"<ul>">> \o SubSeq(t, i, e - 1) \o <<"</ul>">>])

\* the merge of consecutive blockquotes: the tags of the match become
\* spaces and the whole is trimmed
mergeBlockquotes(s) ==
    ReplaceAll(s, LAMBDA t, i :
        LET e == RunOfLines(t, i, "<blockquote>", "</blockquote>")
            match == SubSeq(t, i, e - 1)
        IN  IF e = i THEN NoMatch
            ELSE [n |-> e - i,
                  by |-> <<"<blockquote>">>
                         \o trim([k \in DOMAIN match |->
                                     IF match[k] \in {"<blockquote>", "</blockquote>"}
                                     THEN " " ELSE match[k]])
                         \o <<"</blockquote>">>])

\* the tags with which a block begins that is not wrapped in a paragraph
BlockTags ==
    {"<h1>", "<h2>", "<h3>", "<h1 id=\"", "<h2 id=\"", "<h3 id=\"", "<ul>", "<li>",
     PreOpen, "<blockquote>", "<hr>", "<img src=\"", "<a href=\""}

\* /^<(h[1-6]|ul|ol|li|pre|blockquote|hr|img|a )/.test(block)
IsBlockElement(block) ==
    \/ block[1] \in BlockTags
    \/ HasAt(block, 1, <<"<", "i", "m", "g">>)
    \/ HasAt(block, 1, <<"<", "a", " ">>)

\* the paragraphs: the blocks between empty lines, trimmed; a block that is
\* not a block element is wrapped, its line ends become <br>
paragraphs(s) ==
    LET blocks == Split(s, <<"\n", "\n">>)
        wrapped(b) ==
            LET block == trim(b)
            IN  IF block = <<>> THEN <<>>
                ELSE IF IsBlockElement(block) THEN block
                ELSE <<"<p>">>
                     \o [k \in DOMAIN block |-> IF block[k] = "\n" THEN "<br>" ELSE block[k]]
                     \o <<"</p>">>
    IN  Join([k \in DOMAIN blocks |-> wrapped(blocks[k])], <<"\n">>)

\* renderMarkdown of the build a
renderMarkdown(a, md) ==
    IF md = <<>> THEN <<>>
    ELSE paragraphs(mergeBlockquotes(wrapListItems(listItems(blockquotesAndRules(
             linksAndImages(emphasis(headings(a, inlineCode(codeBlocks(
                 escapeEntities(md)))))))))))

\* extractHeadings(md) of the ZenKeeper renderer: the matches of
\* /^(#{1,3})\s+(.+)$/gm in order.  A match begins at a line start with one
\* to three "#"; \s+ takes the white space that follows, line ends
\* included, and gives back what (.+) needs; (.+) is the rest of that line
extractHeadings(md) ==
    LET matchAt(p) ==
            LET h == Run(md, p, {"#"})
                w == Run(md, p + h, Whitespace)
                taken == {v \in 1 .. w : p + h + v <= Len(md) /\ md[p + h + v] # "\n"}
            IN  IF (p = 1 \/ md[p - 1] = "\n") /\ h \in 1 .. 3 /\ taken # {}
                THEN LET v == CHOOSE x \in taken : \A y \in taken : y <= x
                         b == p + h + v
                         e == IndexOf(md, b, <<"\n">>)
                         lineEnd == IF e = 0 THEN Len(md) ELSE e - 1
                     IN  [n |-> lineEnd + 1 - p,
                          by |-> <<[level |-> h,
                                    text |-> trim(SubSeq(md, b, lineEnd)),
                                    id |-> slugify(SubSeq(md, b, lineEnd))]>>]
                ELSE NoMatch
        from[i \in 1 .. Len(md) + 1] ==
            LET matches == {k \in i .. Len(md) : matchAt(k).n > 0}
            IN  IF matches = {} THEN <<>>
                ELSE LET k == CHOOSE m \in matches : \A j \in matches : m <= j
                     IN  matchAt(k).by \o from[k + matchAt(k).n]
    IN  from[1]

\* the lines of the documents with headings: the three levels, a heading
\* with two spaces after the marker, one with a character that is escaped,
\* a marker alone, a line of text and an empty line
HeadingLines ==
    {<<"#", " ", "a">>, <<"#", "#", " ", "a", " ", "b">>, <<"#", "#", "#", " ", "A">>,
     <<"#", " ", " ", "a">>, <<"#", " ", "a", "&", "b">>, <<"#">>, <<"x">>, <<>>}

\* the lines of the documents with lists: items with the three markers, an
\* item of emphasised text under each unordered marker, a line of text and
\* an empty line
ListLines ==
    {<<"-", " ", "a">>, <<"*", " ", "b">>, <<"1", ".", " ", "c">>,
     <<"-", " ", "*", "a", "*">>, <<"*", " ", "*", "a", "*">>, <<"x">>, <<>>}

\* the lines of the fenced code: text, text with the characters that are
\* escaped, and lines that have the form of a heading, of emphasis and of a
\* list item, and an empty line
CodeLines ==
    {<<"a">>, <<"a", "<", "b">>, <<"a", "&", "b">>, <<"#", " ", "a">>,
     <<"*", "a", "*">>, <<"-", " ", "a">>, <<>>}

\* the language tags of the fences: none and js
Languages == {<<>>, <<"j", "s">>}

MaxLines == 3
MaxCodeLines == 2

\* the documents of at most n lines over the set of lines
Documents(lines, n) ==
    {Join(d, <<"\n">>) : d \in UNION {[1 .. k -> lines] : k \in 1 .. n}}

\* a fenced code block: the fence and the language, the code, the fence
Fenced(lang, code) == Fence \o lang \o <<"\n">> \o code \o <<"\n">> \o Fence

ListDocuments == Documents(ListLines, MaxLines)

HeadingDocuments == Documents(HeadingLines, MaxLines)

CodeDocuments ==
    {Fenced(lang, code) : lang \in Languages, code \in Documents(CodeLines, MaxCodeLines)}

RenderInputs ==
    {Input("renderMarkdown", <<md>>) :
        md \in ListDocuments \cup CodeDocuments \cup HeadingDocuments}

\* renderMarkdown(md) of the build
ApplyRenderMarkdown ==
    /\ call.fn = "input"
    /\ call.of = "renderMarkdown"
    /\ call' = Applied("renderMarkdown", call.args, renderMarkdown(app, call.args[1]))
    /\ FunctionFrame

\* the renderer of either build is given a document, or slugify of the
\* ZenKeeper renderer a heading text
MarkdownInit ==
    /\ NothingApplied
    /\ \/ call \in RenderInputs
       \/ app = "ZenKeeper" /\ call \in SlugInputs

MarkdownNext ==
    \/ ApplySlugify
    \/ ApplyRenderMarkdown

MarkdownSpec == MarkdownInit /\ [][MarkdownNext]_vars

----------------------------------------------------------------------------
(* Properties *)

TouchEnded == last.op = "touchend"

\* the callbacks a tap or a swipe invokes
GestureCallbacks == {"onTap", "onSwipeUp", "onSwipeDown", "onSwipeLeft", "onSwipeRight"}

FiredSet == {fired[i] : i \in DOMAIN fired}

\* C1: the panel is never open while chrome is hidden.
C1_PanelNeverOpenWhileHidden == ~(PanelOpen(state) /\ state.uiHidden)

\* C2: after the explicit open-panel action chrome is visible and the panel
\* is open, whatever chrome was before.
C2_OpenPanelShowsChrome ==
    last.op = "openPanel" => (~state.uiHidden /\ PanelOpen(state))

\* C3: a tap toggles chrome when the panel is closed and changes neither
\* chrome nor the panel when the panel is open.
C3_TapTogglesUnlessPanelOpen ==
    [][ (last'.op \in {"touchend", "reader-tap"} /\ last'.branch = "tap") =>
          IF PanelOpen(state)
          THEN state'.uiHidden = state.uiHidden /\ PanelOpen(state')
          ELSE state'.uiHidden = ~state.uiHidden /\ ~PanelOpen(state') ]_vars

\* C4: a swipe up ends with chrome hidden and the panel closed, and no
\* write of the handler leaves the panel open over hidden chrome.
C4_SwipeUpClosesPanelFirst ==
    (TouchEnded /\ last.branch = "swipeUp") =>
        /\ state.uiHidden
        /\ ~PanelOpen(state)
        /\ \A i \in DOMAIN writes : ~(PanelOpen(writes[i]) /\ writes[i].uiHidden)

\* C5: a swipe down with the panel open closes the panel and leaves chrome
\* as it was; with the panel closed it shows chrome and leaves the panel
\* closed.
C5_SwipeDownPanelThenChrome ==
    [][ (last'.op = "touchend" /\ last'.branch = "swipeDown") =>
          IF PanelOpen(state)
          THEN ~PanelOpen(state') /\ state'.uiHidden = state.uiHidden
          ELSE ~state'.uiHidden /\ ~PanelOpen(state') ]_vars

\* C6: every step from the reader view to the library view ends with chrome
\* visible and the panel closed.
C6_LibraryResetsChromeAndPanel ==
    [][ (state.currentView = "reader" /\ state'.currentView = "library") =>
          (~state'.uiHidden /\ ~PanelOpen(state')) ]_vars

\* C6 witness: the library was entered from a reader state with chrome
\* hidden and the panel open (the first write of showLibrary sets the view).
C6_Witness ==
    /\ last.op = "showLibrary"
    /\ state.currentView = "library"
    /\ writes # <<>>
    /\ writes[1].currentView = "library"
    /\ writes[1].uiHidden
    /\ PanelOpen(writes[1])

\* C7: a touch that ends more than 300 ms after it began is discarded: the
\* handler assigns nothing to the ui state and invokes no tap or swipe
\* callback, whatever the movement.
C7_LateTouchDiscarded ==
    (TouchEnded /\ last.dt > 300) =>
        /\ writes = <<>>
        /\ FiredSet \cap GestureCallbacks = {}
        /\ last.branch \in {"timeout", "selectionEnd"}

\* C7 witness: dx = 0, dy = -60, dt = 500 ms ended as a no-op.
C7_Witness ==
    /\ TouchEnded
    /\ last.dx = 0 /\ last.dy = -60 /\ last.dt = 500
    /\ last.branch = "timeout"
    /\ fired = <<>>

\* a tracked touch, outside text selection, that ended within the timeout
QuickTouchEnded ==
    /\ TouchEnded
    /\ last.branch \notin {"untracked", "selectionEnd"}
    /\ last.dt <= 300

\* C8: a touch ending within the timeout with max(|dx|,|dy|) > 50 is
\* classified as a horizontal swipe when |dx| > |dy| and as a vertical swipe
\* otherwise, |dx| = |dy| included.
C8_ExactlyOneSwipe ==
    (QuickTouchEnded /\ (Abs(last.dx) > 50 \/ Abs(last.dy) > 50)) =>
        IF Abs(last.dx) > Abs(last.dy)
        THEN last.branch \in {"swipeLeft", "swipeRight"}
        ELSE last.branch \in {"swipeUp", "swipeDown"}

\* C9 as stated: dx = 0, dy = -60, dt = 100 ms classifies as a swipe up.
C9_ClassifiesAsSwipeUp ==
    (QuickTouchEnded /\ last.dx = 0 /\ last.dy = -60 /\ last.dt = 100) =>
        last.branch = "swipeUp"

\* C9: with dy = startY - endY, the touch dx = 0, dy = -60, dt = 100 ms
\* outside text selection classifies as a swipe down: the swipe-down callback
\* is invoked when one is registered, and no other gesture callback.
C9_ClassifiesAsSwipeDown ==
    (QuickTouchEnded /\ last.dx = 0 /\ last.dy = -60 /\ last.dt = 100) =>
        /\ last.branch = "swipeDown"
        /\ fired = IF callbacks["onSwipeDown"] = NoCallback THEN <<>>
                   ELSE <<"onSwipeDown">>

\* C9 witness: that touch ended and the registered swipe-down callback ran.
C9_Witness ==
    /\ TouchEnded
    /\ last.dx = 0 /\ last.dy = -60 /\ last.dt = 100
    /\ fired = <<"onSwipeDown">>

\* C10: a touch ending within the timeout with |dx| and |dy| below 10 px is
\* a tap exactly when neither the target nor an ancestor of it below the
\* gesture-bound root is interactive.
C10_TapUnlessInteractive ==
    (QuickTouchEnded /\ Abs(last.dx) < 10 /\ Abs(last.dy) < 10) =>
        (last.branch = "tap" <=> ~isInteractiveElement(last.path))

\* what invoking the slot name puts in fired
Signalled(name) == IF callbacks[name] = NoCallback THEN <<>> ELSE <<name>>

\* the long press timer fired: the touch is 400 ms old, it has not moved
\* beyond 10 px, the recognizer is in selection mode and selection-start was
\* signalled
LongPressEntersSelection ==
    last.op = "longpress" =>
        /\ now - touchStartTime >= 400
        /\ gesture # "moved"
        /\ isSelectionMode
        /\ fired = Signalled("onSelectionStart")

\* the touch of a selection ends: selection-end is signalled, no tap or swipe
SelectionEndsAtTouchEnd ==
    (isSelectionMode /\ last'.op = "touchend") =>
        /\ last'.branch = "selectionEnd"
        /\ fired' = Signalled("onSelectionEnd")
        /\ state' = state
        /\ ~isSelectionMode'

\* C11: a touch held for 400 ms without moving beyond 10 px enters selection
\* mode and signals selection-start; its touch end signals selection-end and
\* no tap or swipe; after a move beyond 10 px before the long press,
\* selection-start is not signalled for that touch.
C11_LongPressSelection ==
    /\ []LongPressEntersSelection
    /\ [][SelectionEndsAtTouchEnd]_vars
    /\ (app = "ZenKeeper" /\ gesture = "held" /\ ~isSelectionMode)
          ~> (isSelectionMode \/ gesture # "held")

\* C11 witness: a touch held beyond the long press delay ended with
\* selection-end signalled to the registered callback.
C11_Witness ==
    /\ TouchEnded
    /\ last.branch = "selectionEnd"
    /\ last.dt >= 400
    /\ fired = <<"onSelectionEnd">>

\* the callback slot a classified gesture invokes
SlotOf ==
    [tap |-> "onTap", swipeUp |-> "onSwipeUp", swipeDown |-> "onSwipeDown",
     swipeLeft |-> "onSwipeLeft", swipeRight |-> "onSwipeRight",
     selectionEnd |-> "onSelectionEnd"]

\* the slots of the running recognizer
Slots == IF app = "ZenReader" THEN ZR_CallbackNames ELSE CallbackNames

\* updateCallbacks sets the slots its argument names and nothing else
UpdateCallbacksFrame ==
    last'.op = "updateCallbacks" =>
        LET new == CallbackUpdates[last'.branch]
        IN  /\ \A n \in Slots :
                  callbacks'[n] = IF n \in DOMAIN new THEN new[n] ELSE callbacks[n]
            /\ UNCHANGED <<touchStartX, touchStartY, touchStartTime, longPressTimer,
                           isSelectionMode, listeners, state>>

\* a classified gesture runs the function its slot holds now, and only it
GestureRunsCurrentCallback ==
    (TouchEnded /\ last.branch \in DOMAIN SlotOf) =>
        LET f == callbacks[SlotOf[last.branch]]
        IN  ran = IF f = NoCallback THEN <<>> ELSE <<f>>

\* C12: updateCallbacks replaces exactly the callbacks its argument names and
\* leaves the other callbacks, the touch tracking state, the selection state
\* and the bound listeners alone; gestures classified afterwards invoke the
\* new callback and never the replaced one.
C12_UpdateCallbacksReplacesNamed ==
    /\ [][UpdateCallbacksFrame]_vars
    /\ []GestureRunsCurrentCallback

\* C12 witness: after onSwipeUp was replaced in the ZenReader recognizer, a
\* swipe up ran the replacement.
C12_Witness ==
    /\ app = "ZenReader"
    /\ TouchEnded
    /\ last.branch = "swipeUp"
    /\ ran = <<"cbA">>

\* round(top / max(1, H - V) * 100), clamped to 0 .. 100
ExpectedPercentage(top, H, V) ==
    LET m == IF H - V < 1 THEN 1 ELSE H - V
        r == MathRound(Rat(top.n * 100, top.d * m))
    IN  IF r < 0 THEN 0 ELSE IF r > 100 THEN 100 ELSE r

\* the percentages the storage holds
StoredPercentages ==
    {IF app = "ZenReader" THEN db[id].progress ELSE db[id].percentage :
        id \in ArticleIds}

\* C13: the percentage computed on a scroll event is
\* round(scrollOffset / max(1, contentHeight - viewportHeight) * 100) clamped
\* to 0 .. 100, and no percentage shown or stored is outside 0 .. 100.
C13_PercentageRoundedAndClamped ==
    /\ call.fn = "getScrollPercentage" =>
          call.result = ExpectedPercentage(call.args[1], call.args[2], call.args[3])
    /\ call.fn = "progress" =>
          MathRound(updateProgress(call.result)) =
              ExpectedPercentage(call.args[1], call.args[2], call.args[3])
    /\ ~Less(indicator, Whole(0)) /\ ~Less(Whole(100), indicator)
    /\ \A p \in StoredPercentages : 0 <= p /\ p <= 100

\* the number a percentage computation returned
Computed == IF call.fn = "progress" THEN call.result ELSE Whole(call.result)

\* a percentage was computed for content no taller than the viewport
ShortContentComputed ==
    /\ call.fn \in {"getScrollPercentage", "progress"}
    /\ call.args[2] - call.args[3] <= 0

\* C14: when contentHeight - viewportHeight <= 0 the computed percentage is
\* 100.
C14_ShortContentIsComplete ==
    ShortContentComputed => SameNumber(Computed, Whole(100))

ShownInRange ==
    call.fn = "updateProgress" =>
        /\ ~Less(call.result, Whole(0))
        /\ ~Less(Whole(100), call.result)

\* a value within 0 .. 100 is shown as it is
InRangeUnchanged ==
    (/\ call.fn = "updateProgress"
     /\ ~Less(call.args[1], Whole(0))
     /\ ~Less(Whole(100), call.args[1])) => call.result = call.args[1]

\* C16: ui.updateProgress shows a value in 0 .. 100 for every input,
\* 0 for -5, 100 for 150, and an input within 0 .. 100 unchanged.
C16_UpdateProgressClamps ==
    /\ ShownInRange
    /\ InRangeUnchanged
    /\ (call.fn = "updateProgress" /\ call.args[1] = Whole(-5)) =>
           call.result = Whole(0)
    /\ (call.fn = "updateProgress" /\ call.args[1] = Whole(150)) =>
           call.result = Whole(100)

\* C16 witness: updateProgress(150) showed 100.
C16_Witness ==
    /\ call.fn = "updateProgress"
    /\ call.args[1] = Whole(150)
    /\ call.result = Whole(100)

\* a step keeps every read flag that is set
ReadFlagKept ==
    app = "ZenReader" =>
        \A id \in ArticleIds : db[id].isRead => db'[id].isRead

\* C17: once the read flag of an article is true, no scroll or progress
\* update and no re-opening of the article sets it back to false.
C17_ReadFlagMonotonic == [][ReadFlagKept]_vars

\* C17 witness: article 1 is read and open, and a later frame stored the
\* progress 36 for it.
C17_Witness ==
    /\ app = "ZenReader"
    /\ last.op = "frame"
    /\ currentArticleId = 1
    /\ db[1].isRead
    /\ db[1].progress = 36

\* a read flag is set only by a progress update above 90 of the open article
ReadFlagSetOnlyAboveNinety ==
    app = "ZenReader" =>
        \A id \in ArticleIds :
            (~db[id].isRead /\ db'[id].isRead) =>
                /\ last'.op = "frame"
                /\ id = currentArticleId
                /\ Less(Whole(90), call'.result)

\* a progress update above 90 of the open article sets its read flag
ReadFlagSetAboveNinety ==
    (/\ app = "ZenReader"
     /\ last'.op = "frame"
     /\ currentArticleId # Null
     /\ Less(Whole(90), call'.result)) => db'[currentArticleId].isRead

WithinTwoPoints ==
    LET d == call.args[1]
    IN  {d[i] : i \in {j \in DOMAIN d :
                         /\ d[j].articleId = call.args[2]
                         /\ Abs(d[j].scrollPosition - call.args[3]) <= 2}}

\* C19: findBookmark(articleId, p) returns a bookmark of that article with
\* |position - p| <= 2 whenever one exists and null otherwise.
C19_FindsWithinTwoPoints ==
    call.fn = "findBookmark" =>
        IF WithinTwoPoints = {} THEN call.result = NoBookmark
        ELSE call.result \in WithinTwoPoints

\* a scroll event of the ZenKeeper reader is handled
ScrollHandled ==
    \/ \E y \in ScrollOffsets : ZK_ScrollEvent(Whole(y))
    \/ ZK_ScrollEvent(scrollTop)

\* the handler shows the percentage of its event and leaves one timer
\* pending, due 500 ms from now
ScrollShowsAndRestarts ==
    ScrollHandled =>
        /\ call'.args[1] = scrollTop'
        /\ indicator' = Whole(call'.result)
        /\ clock' = 0
        /\ Len(scrollTimeout') = 1
        /\ scrollTimeout'[1].due = 500
        /\ scrollTimeout'[1].percentage = call'.result
        /\ Len(saves') <= Len(saves)

\* a save is issued 500 ms or more after the last scroll event, it is the
\* only one since the burst began and carries the percentage of that event
SaveAfterQuietPeriod ==
    Len(saves') > Len(saves) =>
        /\ last'.op = "scrollTimer"
        /\ clock >= 500
        /\ Len(saves') = 1
        /\ saves'[1].articleId = currentArticleId
        /\ saves'[1].percentage = call.result
        /\ db'[currentArticleId].percentage = call.result
        /\ scrollTimeout' = NoTimer

\* the save of the last scroll event has been issued
BurstSaved ==
    /\ scrollTimeout = NoTimer
    /\ \/ currentArticleId = Null
       \/ /\ Len(saves) = 1
          /\ saves[1].percentage = call.result

\* C20: no progress save is issued less than 500 ms after a scroll event;
\* every scroll event restarts the timer and updates the indicator in the
\* same step; when the scroll events stop, one save is issued, with the
\* percentage of the last event.
C20_SaveDebounced ==
    /\ [][ScrollShowsAndRestarts /\ SaveAfterQuietPeriod]_vars
    /\ \/ []<><<ScrollHandled>>_vars
       \/ (app = "ZenKeeper" /\ scrollTimeout # NoTimer) ~> BurstSaved

\* C20 witness: the timer restarted by a later scroll event has fired and
\* saved 90 percent for article 1, the only save of the burst.
C20_Witness ==
    /\ app = "ZenKeeper"
    /\ last.op = "scrollTimer"
    /\ currentArticleId = 1
    /\ saves = <<[articleId |-> 1, percentage |-> 90, restart |-> TRUE]>>
    /\ db[1].percentage = 90
    /\ indicator = Whole(90)

\* the reader is torn down: no article is open
ReaderDestroyed == currentArticleId = Null

\* the recognizer is torn down or no touch is in progress
NoTouchTracked == listeners = {} \/ touchStartX = Null

\* no timer is pending against a torn-down reader or recognizer, or after
\* the touch is over
NoTimerAfterTeardown ==
    /\ ReaderDestroyed => scrollTimeout = NoTimer
    /\ NoTouchTracked => longPressTimer = "none"

\* a timer callback runs only while its component is set up
TimerRunsOnLiveComponent ==
    /\ ZK_ScrollTimer => ~ReaderDestroyed
    /\ LongPress => ~NoTouchTracked

\* C21: after the reader is destroyed the debounced progress callback never
\* fires, and after the recognizer is destroyed or the touch has ended or
\* was cancelled the long press timer never fires.
C21_TimersClearedOnTeardown ==
    /\ []NoTimerAfterTeardown
    /\ [][TimerRunsOnLiveComponent]_vars

\* C21 witness: the reader was left with its save pending and the recognizer
\* was destroyed with its long press timer armed; no timer is left.
C21_Witness ==
    /\ listeners = {}
    /\ ReaderDestroyed
    /\ last.op = "destroyGestures"
    /\ last.branch = "armed"
    /\ \A id \in ArticleIds : ~db[id].saved
    /\ indicator = Whole(90)
    /\ scrollTimeout = NoTimer
    /\ longPressTimer = "none"

\* what the storage holds for the article id
RecordsOf(st, id) ==
    [metadata |-> id \in st.articles,
     readAt |-> id \in st.readAt,
     content |-> id \in st.content,
     bookmarks |-> {b \in st.bookmarks : b.articleId = id},
     highlights |-> {h \in st.highlights : h.articleId = id},
     progress |-> id \in st.progress]

\* the storage holds nothing for id
NothingOf(st, id) ==
    RecordsOf(st, id) = [metadata |-> FALSE, readAt |-> FALSE, content |-> FALSE,
                         bookmarks |-> {}, highlights |-> {}, progress |-> FALSE]

\* storage.deleteArticle(id) returns for an article that existed
DeleteCompletes(id) ==
    \E t \in tasks : /\ t.id = id
                     /\ t.pc = "resolved"
                     /\ DeleteArticleReturn(t)

\* a step of deleteArticle(id) leaves the records of the other articles alone
DeleteLeavesOthers ==
    \A t \in tasks :
        (\E ok \in BOOLEAN : DeleteArticleStep(t, ok)) =>
            \A other \in ArticleIds \ {t.id} :
                RecordsOf(store', other) = RecordsOf(store, other)

\* C22: after deleteArticle(id) completes for an existing article the storage
\* holds no metadata, content, bookmark, highlight or progress record of id,
\* and the records of every other article are unchanged.
C22_DeleteCascades ==
    [][ /\ \A id \in ArticleIds : DeleteCompletes(id) => NothingOf(store, id)
        /\ DeleteLeavesOthers ]_vars

\* a step of storage.getArticle made for the task t
GetArticleStep(t) ==
    \E ok \in BOOLEAN : \/ GetArticleGet(t, ok)
                        \/ GetArticleContent(t, ok)
                        \/ GetArticleUpdate(t, ok)

GetArticleErrors == {"rejected", "Article not found", "Article content not found"}

\* getArticle throws in this step: openArticle ends without an article shown
\* and nothing of the storage has changed
GetArticleFails(t) ==
    /\ t \notin tasks'
    /\ call' \in {Applied("getArticle", <<t.id>>, e) : e \in GetArticleErrors}
    /\ store' = store
    /\ currentArticleId' = currentArticleId
    /\ state'.bookState # "reading"
    /\ state'.currentView = state.currentView

\* getArticle returns in this step: the content was read from its file, the
\* last-read time of the article's row is written and nothing else is
GetArticleReturns(t) ==
    /\ t.pc = "update"
    /\ call' = Applied("getArticle", <<t.id>>, "returned")
    /\ t.id \in store.articles => t.id \in store'.readAt
    /\ [store' EXCEPT !.readAt = {}] = [store EXCEPT !.readAt = {}]
    /\ currentArticleId' = t.id

\* getArticle goes on to its next await, with the content when that has been
\* read from its file
GetArticleGoesOn(t) ==
    /\ \/ t.pc = "get" /\ [t EXCEPT !.pc = "content"] \in tasks'
       \/ t.pc = "content" /\ t.id \in store.content
                           /\ [t EXCEPT !.pc = "update"] \in tasks'
    /\ store' = store

\* C23: getArticle(id) either returns the metadata together with the stored
\* content and writes the last-read time, or fails with an error; when the
\* metadata exists and the content file is missing it throws 'Article content
\* not found', no article is given to the reader and the last-read time is
\* left as it was.
C23_GetArticleReturnsContentOrFails ==
    [][ \A t \in tasks :
            GetArticleStep(t) =>
                /\ GetArticleReturns(t) \/ GetArticleFails(t) \/ GetArticleGoesOn(t)
                /\ (t.pc = "content" /\ t.id \notin store.content) =>
                       /\ GetArticleFails(t)
                       /\ call'.result = "Article content not found" ]_vars

\* getArticle(1) has thrown 'Article content not found' for the article 1
\* whose row exists and whose file is missing; its last-read time is not
\* written.
C23_Witness ==
    /\ call = Applied("getArticle", <<1>>, "Article content not found")
    /\ 1 \in store.articles
    /\ 1 \notin store.content
    /\ 1 \notin store.readAt
    /\ currentArticleId = Null

\* the url field holds a text that is not a valid url
Malformed(url) == url = <<>> \/ ~isValidUrl(url)

\* C24: submitting a malformed url is rejected before any call of the
\* extraction endpoint or of the storage: an error message is shown, no
\* operation is started, and the stored articles and the view and loading
\* state are as before.
C24_MalformedUrlRejected ==
    [][ \A url \in Urls :
            (SubmitUrl(url) /\ Malformed(url)) =>
                /\ notice' = "Please enter a valid URL"
                /\ tasks' = tasks
                /\ store' = store
                /\ state' = state ]_vars

\* the same for the texts that new URL does not parse
UnparsedUrlRejected ==
    [][ \A url \in Urls \ {<<>>} :
            (SubmitUrl(url) /\ newURL(url) = TypeError) =>
                /\ notice' = "Please enter a valid URL"
                /\ tasks' = tasks
                /\ store' = store
                /\ state' = state ]_vars

\* the ways the remote extraction fails
ExtractFailures == ExtractOutcomes \ {"article"}

\* the steps of an add operation up to the answer of the extraction write
\* nothing
NoWriteBeforeExtraction ==
    /\ \A url \in Urls : SubmitUrl(url) => store' = store
    /\ \A t \in tasks : (\E ok \in BOOLEAN : AddFind(t, ok)) => store' = store

OperationFails(t) ==
    \/ DeleteArticleGet(t, FALSE)
    \/ t.pc # "content" /\ DeleteArticleStep(t, FALSE)
    \/ LoadLibrary(t, FALSE)
    \/ GetArticleStep(t) /\ t \notin tasks' /\ call'.result \in GetArticleErrors
    \/ OpenArticleStep(t, FALSE)

\* C26: every failure of an asynchronous operation (opening an article,
\* deleting, loading the library) is reported to the view: after the step in
\* which the operation fails an error message or error state is shown.
C26_FailuresReported ==
    [][ \A t \in tasks :
            OperationFails(t) => notice' # NoNotice \/ state'.bookState = "error" ]_vars

\* a save of id made before or during the delete of id has not settled
SavePending(T, id) ==
    \E t \in T : /\ t.fn \in {"saveProgress", "updateProgress"}
                 /\ t.id = id
                 /\ t.pc = "put"

\* storage.deleteArticle(id) has not returned
DeletePending(T, id) ==
    \E t \in T : t.fn = "deleteArticle" /\ t.id = id /\ t.pc # "loadLibrary"

\* the storage holds neither a progress record nor the metadata of id
NoProgressLeft(st, id) == id \notin st.progress /\ id \notin st.articles

\* deleteArticle(id) returns after the saves made before or during it
DeleteSettlesLast(id) == DeleteCompletes(id) /\ ~SavePending(tasks', id)

\* the last save made before or during deleteArticle(id) settles after the
\* delete has returned (call is the last return of a storage operation)
SaveSettlesLast(id) ==
    /\ \E t \in tasks, ok \in BOOLEAN :
           t.id = id /\ t.pc = "put" /\ SaveSettles(t, ok)
    /\ call = Applied("deleteArticle", <<id>>, "resolved")
    /\ ~SavePending(tasks', id)
    /\ ~DeletePending(tasks', id)

\* C30: once deleteArticle(id) and every save of the progress of id made
\* before or during it have settled, the storage holds no progress record
\* and no metadata of id.
C30_DeleteLeavesNoProgress ==
    [][ \A id \in ArticleIds :
            (DeleteSettlesLast(id) \/ SaveSettlesLast(id)) =>
                NoProgressLeft(store', id) ]_vars

\* C29: the slug of every heading text holds only the characters a-z, 0-9
\* and the dash, has no two dashes side by side, and is its own slug
\* (slugify is idempotent).
C29_SlugIsCleanAndIdempotent ==
    call.fn = "slugify" =>
        LET slug == call.result
        IN  /\ Range(slug) \subseteq LowerCase \cup Digits \cup {"-"}
            /\ \A i \in 1 .. Len(slug) - 1 : ~(slug[i] = "-" /\ slug[i + 1] = "-")
            /\ slugify(slug) = slug

\* a capital, whitespace and a dash between two letters became one dash
C29_Witness ==
    /\ call.fn = "slugify"
    /\ call.args[1] = <<"A", " ", "-", "a">>
    /\ call.result = <<"a", "-", "a">>

\* what the renderer is to write for a fenced block: the code, with its
\* line end, escaped once between the tags that carry the language
CodeBlockHtml(lang, code) ==
    <<PreOpen>> \o lang \o <<TagEnd>> \o escapeCode(code \o <<"\n">>) \o <<PreClose>>

\* the document is one fenced block with this language and this code
RenderedBlock(lang, code) ==
    /\ call.fn = "renderMarkdown"
    /\ call.args[1] = Fenced(lang, code)

\* C27: the content of a fenced code block is in the output escaped exactly
\* once inside <pre><code class="language-LANG">, and no other rule (emphasis,
\* inline code, heading, list, link, blockquote, paragraph and line break)
\* touches the text of the block.
C27_CodeBlockEscapedOnceAndKept ==
    \A lang \in Languages, code \in Documents(CodeLines, MaxCodeLines) :
        RenderedBlock(lang, code) => call.result = CodeBlockHtml(lang, code)

\* code without a character that is escaped and without a line that another
\* rule matches is written as the claim says
PlainCodeKept ==
    \A lang \in Languages, code \in Documents({<<"a">>}, MaxCodeLines) :
        RenderedBlock(lang, code) => call.result = CodeBlockHtml(lang, code)

\* the less-than sign of the code is escaped twice
CodeEscapedTwice ==
    /\ RenderedBlock(<<"j", "s">>, <<"a", "<", "b">>)
    /\ call.result = <<PreOpen, "j", "s", TagEnd, "a">> \o Amp \o <<"l", "t", ";", "b", "\n", PreClose>>

\* a line of the code after the first that begins with # is made a heading
CodeLineMadeHeading ==
    /\ RenderedBlock(<<>>, <<"a", "\n", "#", " ", "a">>)
    /\ \E tag \in {"<h1>", "<h1 id=\""} : tag \in Range(call.result)

\* a list item line: the marker -, * or N., a space and text
IsItemLine(line) ==
    \/ \E m \in {"-", "*"} : HasAt(line, 1, <<m, " ">>) /\ Len(line) > 2
    \/ LET d == Run(line, 1, Digits)
       IN  d >= 1 /\ HasAt(line, d + 1, <<".", " ">>) /\ Len(line) > d + 2

\* the lengths of the runs of adjacent item lines, in the order of the lines
ItemRuns(lines) ==
    LET upTo[i \in 0 .. Len(lines)] ==
            IF i = 0 THEN <<>>
            ELSE IF ~IsItemLine(lines[i]) THEN upTo[i - 1]
            ELSE IF i > 1 /\ IsItemLine(lines[i - 1])
                 THEN [upTo[i - 1] EXCEPT ![Len(upTo[i - 1])] = @ + 1]
                 ELSE Append(upTo[i - 1], 1)
    IN  upTo[Len(lines)]

\* the numbers of item elements of the list wrappers, in the order of the
\* output
Wrappers(html) ==
    LET opens == {p \in DOMAIN html : html[p] = "<ul>"}
        nth(n) == CHOOSE p \in opens : Cardinality({q \in opens : q < p}) = n - 1
        items(p) == Cardinality({k \in p .. IndexOf(html, p, <<"</ul>">>) :
                                    html[k] = "<li>"})
    IN  [n \in 1 .. Cardinality(opens) |-> items(nth(n))]

\* a document without a fenced block has been rendered
RenderedLines ==
    /\ call.fn = "renderMarkdown"
    /\ Grave \notin Range(call.args[1])

\* C28: every run of n adjacent list item lines (markers -, * and N.) is in
\* the output one list wrapper with n item elements: the wrappers of the
\* output are, in order, the runs of the input.
C28_RunsOfItemsShareOneWrapper ==
    RenderedLines =>
        Wrappers(call.result) = ItemRuns(Split(call.args[1], <<"\n">>))

\* the item lines whose text is not between asterisks after the marker *
NoStarredItem(md) ==
    \A i \in 1 .. Len(md) - 2 : ~HasAt(md, i, <<"*", " ", "*">>)

\* runs without such an item are wrapped as the claim says
PlainRunsShareOneWrapper ==
    RenderedLines /\ NoStarredItem(call.args[1]) =>
        Wrappers(call.result) = ItemRuns(Split(call.args[1], <<"\n">>))

\* three adjacent items with the three markers are in one wrapper
ThreeItemsInOneWrapper ==
    /\ call.fn = "renderMarkdown"
    /\ call.args[1] = <<"-", " ", "a", "\n", "*", " ", "b", "\n", "1", ".", " ", "c">>
    /\ call.result = <<"<ul>", "<li>", "a", "</li>", "\n", "<li>", "b", "</li>", "\n",
                       "<li>", "c", "</li>", "</ul>">>

\* an item of emphasised text under the marker * is not made an item
StarredItemLost ==
    /\ call.fn = "renderMarkdown"
    /\ call.args[1] = <<"*", " ", "*", "a", "*", "\n", "*", " ", "b">>
    /\ Wrappers(call.result) = <<1>>

\* C38: whenever the library is shown, chrome is visible and the panel is
\* closed.
C38_LibraryShowsChromeAndNoPanel ==
    state.currentView = "library" => (~state.uiHidden /\ ~PanelOpen(state))

\* the number of tap and swipe callbacks among those a handler invoked
GesturesFired(f) == Cardinality({i \in DOMAIN f : f[i] \in GestureCallbacks})

\* the recognizer tracks no touch
RecognizerIdle ==
    /\ touchStartX = Null
    /\ touchStartY = Null
    /\ touchStartTime = Null

\* a touchend or touchcancel has invoked at most one tap or swipe callback
\* and has left the recognizer idle
SequenceEndsOnce ==
    last.op \in {"touchend", "touchcancel"} =>
        (GesturesFired(fired) <= 1 /\ RecognizerIdle)

\* a touchend that no touchstart precedes has invoked nothing and assigned
\* nothing to the ui state
UntrackedTouchEndIgnored ==
    (TouchEnded /\ last.branch = "untracked") => (fired = <<>> /\ writes = <<>>)

\* touchstart, touchmove and the long press timer invoke no tap or swipe
\* callback
NoGestureBeforeEnd ==
    last.op \in {"touchstart", "touchmove", "longpress"} => GesturesFired(fired) = 0

\* C39: a touch sequence, from touchstart to touchend or touchcancel, invokes
\* at most one tap or swipe callback, the recognizer is idle after it (start
\* x, y and time cleared), and a touchend without a touchstart invokes no
\* callback and changes no ui state.
C39_OneGesturePerSequence ==
    SequenceEndsOnce /\ UntrackedTouchEndIgnored /\ NoGestureBeforeEnd

\* C39 witness: a touch ended with one callback and the recognizer idle, and
\* the touchend that followed it without a touchstart did nothing
C39_Witness ==
    /\ TouchEnded
    /\ last.branch = "untracked"
    /\ RecognizerIdle
    /\ fired = <<>>
    /\ writes = <<>>

\* the click the browser delivers for a touch that ended as a tap: the next
\* event after the touchend, on the element of the touch
ClickOfTheTap ==
    /\ TouchEnded
    /\ last.branch = "tap"
    /\ Click(last.path)

\* C35: one tap on a part of the bound region that is not interactive invokes
\* onTap exactly once: the touchend does, and the click delivered for the
\* same tap invokes no callback and leaves chrome as the tap set it.
C35_OneTapOneOnTap ==
    /\ [](TouchEnded /\ last.branch = "tap" => GesturesFired(fired) <= 1)
    /\ [][ClickOfTheTap => (GesturesFired(fired') = 0 /\ state' = state)]_vars

\* the touchend of a tap invokes the registered onTap once, and assigns to
\* chrome once
TapInvokesOnTapOnce ==
    (TouchEnded /\ last.branch = "tap") =>
        /\ fired = IF callbacks["onTap"] = NoCallback THEN <<>> ELSE <<"onTap">>
        /\ Len(writes) <= 1

\* the click of a tap ran onTap again and chrome is back where it was
TappedTwice ==
    /\ last.op = "click"
    /\ last.branch = "tap"
    /\ fired = <<"onTap">>
    /\ ran = <<"ZR_onTap">>

\* selection mode is switched off only with selection-end signalled
SelectionEndSignalled ==
    (isSelectionMode /\ ~isSelectionMode') => fired' = Signalled("onSelectionEnd")

\* selection-start is not signalled again while the selection of an earlier
\* long press has not ended
OneSelectionAtATime == LongPress => ~isSelectionMode

\* C34: every selection-start is followed by exactly one selection-end before
\* the next touch is classified, whether the touch of the long press ends,
\* is cancelled, a second touch starts or the recognizer is destroyed:
\* selection mode is never switched off without selection-end signalled, and
\* never entered twice without a selection-end between.
C34_SelectionStartHasItsEnd ==
    [][SelectionEndSignalled /\ OneSelectionAtATime]_vars

\* a touchcancel ended the selection of a long press and the registered
\* selection-end callback was not invoked
SelectionCancelledSilently ==
    /\ last.op = "touchcancel"
    /\ callbacks["onSelectionEnd"] # NoCallback
    /\ callbacks["onSelectionStart"] # NoCallback
    /\ ~isSelectionMode
    /\ fired = <<>>

\* the percentage stored for the open article is the one the last scroll
\* event computed (the reader shows it at once)
PositionStored ==
    currentArticleId # Null /\ Whole(db[currentArticleId].percentage) = indicator

\* C31: the reading position survives leaving the reader: when the user goes
\* back to the library (backToLibrary, which destroys the reader), the
\* percentage stored for the article is the last one computed from a scroll
\* event, also when less than 500 ms have passed since that event.  Nothing
\* is stored for an article after it has been left, so what is stored at
\* that step is what is stored in the end.
C31_PositionSurvivesLeaving ==
    [][ZK_LeaveReader => (db' = db /\ PositionStored)]_vars

\* leaving with no save pending keeps the position
SettledPositionSurvives ==
    [][(ZK_LeaveReader /\ scrollTimeout = NoTimer) => (db' = db /\ PositionStored)]_vars

\* the reader was left with a save pending and the position of the last
\* scroll event is not the stored one
PositionLost ==
    /\ app = "ZenKeeper"
    /\ last.op = "showLibrary"
    /\ scrollTimeout = NoTimer
    /\ \A id \in ArticleIds : Whole(db[id].percentage) # indicator

\* the addition of article id is between its two writes
BeingAdded(id) == \E t \in tasks : At(t, "addArticle", "save") /\ t.id = id

\* C36: every article metadata record has its content stored: outside the
\* addition that is writing it, no record of db.articles lacks its content
\* file (so a failed content write leaves no record behind), and a library
\* listing that is rendered lists no article whose content is not written.
C36_MetadataHasContent ==
    /\ \A id \in store.articles : id \in store.content \/ BeingAdded(id)
    /\ (last.op = "loadLibrary" /\ last.branch = "rendered")
          => store.articles \subseteq store.content

\* an addition whose content write succeeds leaves record and content
AddedWithContent ==
    [][\A t \in tasks : AddContent(t, TRUE) => t.id \in store'.articles \cap store'.content]_vars

\* the content write of an addition failed and its record is still there
RecordWithoutContent ==
    /\ NewId \in store.articles \ store.content
    /\ ~BeingAdded(NewId)
    /\ notice = "Failed to add article"

\* the heading elements of a rendered document, in order: the level of the
\* tag and the value of its id attribute
HeadingElements(html) ==
    LET opens == [level \in 1 .. 3 |-> "<h" \o ToString(level) \o " id=\""]
        isOpen(i) == \E level \in 1 .. 3 : html[i] = opens[level]
        element(i) ==
            [level |-> CHOOSE level \in 1 .. 3 : html[i] = opens[level],
             id |-> SubSeq(html, i + 1, IndexOf(html, i + 1, <<TagEnd>>) - 1)]
        at == SelectSeq([i \in DOMAIN html |-> i], isOpen)
    IN  [k \in DOMAIN at |-> element(at[k])]

\* the entries of the table of contents: level and id of what
\* extractHeadings returns
Contents(md) ==
    LET found == extractHeadings(md)
    IN  [k \in DOMAIN found |-> [level |-> found[k].level, id |-> found[k].id]]

\* renderMarkdown of ZenKeeper was applied to a document
Rendered == app = "ZenKeeper" /\ call.fn = "renderMarkdown"

\* C37: the table of contents and the rendered document agree:
\* extractHeadings returns, in document order, one entry per heading element
\* that renderMarkdown produces for the same markdown, with the level of the
\* element and with an id equal to the element's id attribute.
C37_ContentsMatchHeadings ==
    Rendered => Contents(call.args[1]) = HeadingElements(call.result)

\* the characters of a heading line for which both functions agree
PlainHeadingCharacters == {"#", " ", "a", "b", "A", "x", "\n"}

\* a document of lines outside code, each beginning with a letter or with
\* a marker that a space and a letter follow
PlainHeadings(md) ==
    /\ Range(md) \subseteq PlainHeadingCharacters
    /\ \A i \in DOMAIN md :
          md[i] = "#" => i < Len(md) /\ md[i + 1] \in {"#", " "}

\* the two agree on documents of plain headings
PlainHeadingsMatch ==
    (Rendered /\ PlainHeadings(call.args[1]))
        => Contents(call.args[1]) = HeadingElements(call.result)

\* a document of three plain headings was rendered
ThreeHeadingsRendered ==
    /\ Rendered
    /\ PlainHeadings(call.args[1])
    /\ Len(HeadingElements(call.result)) = 3

\* a heading whose text has an escaped character: the id of the entry is
\* not the id of the element
EntryWithAnotherId ==
    /\ Rendered
    /\ Len(Contents(call.args[1])) = 1
    /\ Len(HeadingElements(call.result)) = 1
    /\ Contents(call.args[1])[1].id # HeadingElements(call.result)[1].id

\* an entry for a line that is no heading element of the document
EntryWithoutElement ==
    /\ Rendered
    /\ Len(Contents(call.args[1])) > Len(HeadingElements(call.result))

\* no two bookmarks of an article lie less than 2 points apart
BookmarksApart ==
    \A b, c \in store.bookmarks :
        (b.id # c.id /\ b.articleId = c.articleId)
            => Abs(b.scrollPosition - c.scrollPosition) >= 2

\* C32: after any sequence of toggleBookmark operations on an article,
\* overlapping ones included, no two bookmarks of that article lie within
\* the 2-point tolerance of each other.
C32_BookmarksKeptApart == BookmarksApart

\* a write made while what findBookmark returned to the toggle is still
\* what it would return keeps the bookmarks apart
FreshFindingKeepsApart ==
    [][\A t \in tasks :
          (/\ ToggleWrite(t, TRUE)
           /\ BookmarksApart
           /\ findBookmark(toArray(store.bookmarks), t.id, t.scrollPosition).id = t.existing)
              => BookmarksApart']_vars

\* a toggle has added a bookmark and the bookmarks are apart
AddedApart ==
    /\ \E b \in store.bookmarks : b.id > Cardinality(ArticleIds)
    /\ store.bookmarkKey = Cardinality(ArticleIds) + 1
    /\ BookmarksApart
    /\ Toggles # {}

\* an openArticle call is suspended at one of its awaits
Opening == \E t \in tasks : t.fn = "openArticle"

\* an article is shown for reading and no openArticle call is in flight
ArticleShown ==
    /\ ~Opening
    /\ state.currentView = "reader"
    /\ app = "ZenKeeper" => state.bookState = "reading"

\* C33: with overlapping openArticle calls for different articles, the
\* article id used for saving progress and toggling bookmarks identifies the
\* article whose content the reader displays: once the calls have ended and
\* an article is shown, currentArticleId is the id of the article displayed,
\* and a save of the progress is made for the article displayed.
C33_CurrentIdIsDisplayed ==
    /\ [](ArticleShown => currentArticleId = displayed)
    /\ [][HandleNavigation => currentArticleId = displayed]_vars

\* ZenReader, where ui.renderReader sets the id and the content together
ZR_CurrentIdIsDisplayed ==
    (app = "ZenReader" /\ state.currentView = "reader") => currentArticleId = displayed

\* ZenReader: the second of two overlapping openArticle calls has ended and
\* its article is shown
ZR_SecondShown ==
    /\ app = "ZenReader"
    /\ state.currentView = "reader"
    /\ displayed = 2
    /\ store.readAt = ArticleIds
    /\ tasks = {}

\* ZenKeeper: both calls have ended, the reader shows one article and
\* currentArticleId is the id of the other
OtherArticleDisplayed ==
    /\ ArticleShown
    /\ displayed # Null
    /\ currentArticleId # Null
    /\ currentArticleId # displayed

====
